---------------------------- MODULE Spec2Model ----------------------------
(***************************************************************************)
(* Discord_Watch notification core: the provider registry and fan-out of   *)
(* notifications/manager.py, the two channel providers                     *)
(* (discord_provider.py, telegram_provider.py), the colour policy and the  *)
(* action classifier of notifications/config.py, and the thumbnail cache   *)
(* of notifications/telegram_images.py.                                    *)
(*                                                                         *)
(* Text is a sequence of one-character strings, so that Python's           *)
(* str.strip, str.lower, str.split, int(s, 16) and the two regular         *)
(* expressions of the sanitiser are computed character by character.       *)
(***************************************************************************)
EXTENDS Integers, Sequences, FiniteSets, TLC

VARIABLES
    env,          \* os.environ restricted to the DISCORD_COLOR_* entries
    colorCall,    \* the last ColorConfig / embed call and its result
    pieces,       \* the text handed to _sanitize_telegram_html, as tokens
    sanOut,       \* result of the first sanitising pass
    sanOut2,      \* result of sanitising sanOut again
    providers,    \* NotificationManager.providers
    tokenSet,     \* TELEGRAM_BOT_TOKEN is set in the environment
    thumbsOn,     \* TelegramThumbnailConfig.is_enabled()
    pc,           \* position of the send_notification_all coroutine
    call,         \* arguments of the running send_notification_all
    idx,          \* loop index over user_notifications.items()
    results,      \* the results dict of send_notification_all
    provOutcome,  \* what each provider.send_notification call did
    prov,         \* locals of the running provider.send_notification
    log,          \* transport calls issued and completed, in order
    fmtIn,        \* message and profile handed to _format_for_telegram
    fmtOut,       \* the escaped message and the text that is sent
    inferMsg,     \* the message handed to infer_action_type
    inferOut,     \* the category infer_action_type returned
    dbAttached,   \* CacheManager.db_collection is set
    clock,        \* the time, in hours
    files,        \* the *.jpg files of the cache directory
    records,      \* the documents of the metadata collection
    saved,        \* per key, the last save_thumbnail since the last cleanup
    cacheOp,      \* the last CacheManager call and what it returned
    readers,      \* the get_cached_thumbnail coroutines in flight
    writers,      \* the save_thumbnail coroutines in flight
    fetchOp,      \* the last get_thumbnail_for_user call and what it did
    watched,      \* watched_users of the notification_preferences documents
    presence_cache,         \* main.presence_cache
    presenceTasks,          \* the on_presence_update tasks, in dispatch order
    voiceOf,                \* the voice channel each member is in
    voice_state_cache,      \* main.voice_state_cache
    watched_channel_users,  \* main.watched_channel_users
    voiceTasks              \* the on_voice_state_update tasks, in dispatch order

vars == <<env, colorCall, pieces, sanOut, sanOut2, providers, tokenSet,
          thumbsOn, pc, call, idx, results, provOutcome, prov, log,
          fmtIn, fmtOut, inferMsg, inferOut, dbAttached, clock, files,
          records, saved, cacheOp, readers, writers, fetchOp, watched,
          presence_cache, presenceTasks, voiceOf, voice_state_cache,
          watched_channel_users, voiceTasks>>

colorVars == <<env, colorCall>>
sanVars == <<pieces, sanOut, sanOut2>>
mgrVars == <<providers, tokenSet, thumbsOn, pc, call, idx, results,
             provOutcome, prov, log>>
fmtVars == <<fmtIn, fmtOut>>
inferVars == <<inferMsg, inferOut>>
cacheVars == <<dbAttached, clock, files, records, saved, cacheOp>>
picVars == <<readers, writers, fetchOp>>
presVars == <<presence_cache, presenceTasks>>
voiceVars == <<voiceOf, voice_state_cache, watched_channel_users, voiceTasks>>
botVars == <<watched, presVars, voiceVars>>
\* the state of the formatter, the classifier, the thumbnail cache and the
\* event handlers
unitVars == <<fmtVars, inferVars, cacheVars, picVars, botVars>>

\* Python's None, and the marker of a call that raised; both are texts no
\* Python string of the model equals
None == <<"None">>
Raised == <<"Raised">>

-----------------------------------------------------------------------------
(* Bounds of the model *)

MaxOverrideLen == 3
MaxPieces == 4
MaxBlocks == 2
MaxMsgLen == 3
MaxWords == 2
MaxTime == 2

-----------------------------------------------------------------------------
(* Python string primitives *)

\* the letters of the model's alphabet that have two cases (u_00d4 is the
\* capital O with circumflex of one keyword literal)
UpperLetters == <<"A", "B", "C", "D", "E", "F", "G", "H", "I", "J", "K", "L",
                  "M", "N", "O", "P", "Q", "R", "S", "T", "U", "V", "W", "X",
                  "Y", "Z", "u_00d4">>
LowerLetters == <<"a", "b", "c", "d", "e", "f", "g", "h", "i", "j", "k", "l",
                  "m", "n", "o", "p", "q", "r", "s", "t", "u", "v", "w", "x",
                  "y", "z", "u_00f4">>

LowerChar(c) ==
    IF \E i \in DOMAIN UpperLetters : UpperLetters[i] = c
    THEN LowerLetters[CHOOSE i \in DOMAIN UpperLetters : UpperLetters[i] = c]
    ELSE c

UpperChar(c) ==
    IF \E i \in DOMAIN LowerLetters : LowerLetters[i] = c
    THEN UpperLetters[CHOOSE i \in DOMAIN LowerLetters : LowerLetters[i] = c]
    ELSE c

\* str.lower()
Lower(s) == [i \in 1..Len(s) |-> LowerChar(s[i])]

\* str.upper()
Upper(s) == [i \in 1..Len(s) |-> UpperChar(s[i])]

\* s[a:b] with 0-based half-open Python indices, clipped like a slice
Slice(s, a, b) ==
    LET hi == IF b > Len(s) THEN Len(s) ELSE b
    IN  IF a >= hi THEN <<>> ELSE SubSeq(s, a + 1, hi)

\* str.strip(chars): drop leading and trailing characters that are in chars
StripChars(s, chars) ==
    LET keep == {i \in 1..Len(s) : s[i] \notin chars}
    IN  IF keep = {} THEN <<>>
        ELSE LET lo == CHOOSE i \in keep : \A j \in keep : i <= j
                 hi == CHOOSE i \in keep : \A j \in keep : i >= j
             IN  SubSeq(s, lo, hi)

\* k in s
Contains(s, k) ==
    \/ k = <<>>
    \/ \E i \in 0..(Len(s) - Len(k)) :
          s[i + 1] = k[1] /\ SubSeq(s, i + 1, i + Len(k)) = k

Whitespace == {" ", "\t", "\n"}

\* str.split()[0]: the first whitespace-separated word; Raised (IndexError)
\* when the string has no word at all
FirstWord(s) ==
    LET keep == {i \in 1..Len(s) : s[i] \notin Whitespace}
    IN  IF keep = {} THEN Raised
        ELSE LET lo == CHOOSE i \in keep : \A j \in keep : i <= j
                 ends == {j \in lo..Len(s) :
                            /\ \A k \in lo..j : s[k] \notin Whitespace
                            /\ (j = Len(s) \/ s[j + 1] \in Whitespace)}
                 hi == CHOOSE j \in ends : TRUE
             IN  SubSeq(s, lo, hi)

HexDigitChars == <<"0", "1", "2", "3", "4", "5", "6", "7", "8", "9",
                   "a", "b", "c", "d", "e", "f">>

IsHexDigit(c) == \E i \in 1..16 : HexDigitChars[i] = LowerChar(c)

HexDigitValue(c) == (CHOOSE i \in 1..16 : HexDigitChars[i] = LowerChar(c)) - 1

RECURSIVE HexValue(_)
\* value of a non-empty string of hexadecimal digits
HexValue(s) ==
    IF s = <<>> THEN 0
    ELSE 16 * HexValue(SubSeq(s, 1, Len(s) - 1)) + HexDigitValue(s[Len(s)])

AllHex(s) == s # <<>> /\ \A i \in 1..Len(s) : IsHexDigit(s[i])

\* int(s, 16): optional sign, optional 0x prefix, then hexadecimal digits;
\* ok is FALSE where Python raises ValueError.  The alphabet of the model has
\* no whitespace and no underscore inside override values.
ParseInt16(s) ==
    LET neg == s # <<>> /\ s[1] = "-"
        signed == s # <<>> /\ s[1] \in {"-", "+"}
        body == IF signed THEN Slice(s, 1, Len(s)) ELSE s
        pref == Len(body) >= 2 /\ body[1] = "0" /\ LowerChar(body[2]) = "x"
        digits == IF pref THEN Slice(body, 2, Len(body)) ELSE body
    IN  IF AllHex(digits)
        THEN [ok |-> TRUE,
              val |-> IF neg THEN 0 - HexValue(digits) ELSE HexValue(digits)]
        ELSE [ok |-> FALSE, val |-> 0]

-----------------------------------------------------------------------------
(* notifications/config.py: ActionType, ColorConfig, infer_action_type *)

VOICE_JOIN == <<"v", "o", "i", "c", "e", "_", "j", "o", "i", "n">>
VOICE_LEAVE == <<"v", "o", "i", "c", "e", "_", "l", "e", "a", "v", "e">>
VOICE_MOVE == <<"v", "o", "i", "c", "e", "_", "m", "o", "v", "e">>
VOICE_MUTE == <<"v", "o", "i", "c", "e", "_", "m", "u", "t", "e">>
VOICE_UNMUTE == <<"v", "o", "i", "c", "e", "_", "u", "n", "m", "u", "t", "e">>
VOICE_DEAFEN == <<"v", "o", "i", "c", "e", "_", "d", "e", "a", "f", "e", "n">>
VOICE_UNDEAFEN == <<"v", "o", "i", "c", "e", "_", "u", "n", "d", "e", "a", "f", "e", "n">>
STATUS_ONLINE == <<"s", "t", "a", "t", "u", "s", "_", "o", "n", "l", "i", "n", "e">>
STATUS_OFFLINE == <<"s", "t", "a", "t", "u", "s", "_", "o", "f", "f", "l", "i", "n", "e">>
STATUS_IDLE == <<"s", "t", "a", "t", "u", "s", "_", "i", "d", "l", "e">>
STATUS_DND == <<"s", "t", "a", "t", "u", "s", "_", "d", "n", "d">>
MEMBER_JOIN == <<"m", "e", "m", "b", "e", "r", "_", "j", "o", "i", "n">>
MEMBER_LEAVE == <<"m", "e", "m", "b", "e", "r", "_", "l", "e", "a", "v", "e">>
MEMBER_UPDATE == <<"m", "e", "m", "b", "e", "r", "_", "u", "p", "d", "a", "t", "e">>
WARNING == <<"w", "a", "r", "n", "i", "n", "g">>
ERROR == <<"e", "r", "r", "o", "r">>
ADMIN == <<"a", "d", "m", "i", "n">>
DEFAULT == <<"d", "e", "f", "a", "u", "l", "t">>

ActionTypes ==
    {VOICE_JOIN, VOICE_LEAVE, VOICE_MOVE, VOICE_MUTE,
     VOICE_UNMUTE, VOICE_DEAFEN, VOICE_UNDEAFEN, STATUS_ONLINE,
     STATUS_OFFLINE, STATUS_IDLE, STATUS_DND, MEMBER_JOIN,
     MEMBER_LEAVE, MEMBER_UPDATE, WARNING, ERROR,
     ADMIN, DEFAULT}

\* ColorConfig._DEFAULT_COLORS (hexadecimal literals of the source, in decimal)
DEFAULT_COLORS(a) ==
    CASE a = VOICE_JOIN -> 65280
      [] a = VOICE_LEAVE -> 16711680
      [] a = VOICE_MOVE -> 33023
      [] a = VOICE_MUTE -> 16776960
      [] a = VOICE_UNMUTE -> 65280
      [] a = VOICE_DEAFEN -> 16753920
      [] a = VOICE_UNDEAFEN -> 65280
      [] a = STATUS_ONLINE -> 65280
      [] a = STATUS_OFFLINE -> 8421504
      [] a = STATUS_IDLE -> 16753920
      [] a = STATUS_DND -> 16711680
      [] a = MEMBER_JOIN -> 3329330
      [] a = MEMBER_LEAVE -> 14423100
      [] a = MEMBER_UPDATE -> 2003199
      [] a = WARNING -> 16776960
      [] a = ERROR -> 16711680
      [] a = ADMIN -> 8388736
      [] a = DEFAULT -> 65280

\* keywords of infer_action_type, one set per branch. The three non-ASCII
\* literals of the source are written one element per code point; u_00d4 is an
\* upper-case letter, the others have no case

\* a co-occurring word that every text holds
KW_channel_Empty == <<>>

\* the word the three voice rules ask for besides their keyword
KW_channel == <<"c", "h", "a", "n", "n", "e", "l">>

JoinWords ==
    {<<"j", "o", "i", "n", "e", "d">>,
     <<"e", "n", "t", "e", "r", "i", "n", "g">>,
     <<"c", "o", "n", "n", "e", "c", "t", "i", "n", "g">>}
LeaveWords ==
    {<<"l", "e", "f", "t">>,
     <<"l", "e", "a", "v", "i", "n", "g">>,
     <<"d", "i", "s", "c", "o", "n", "n", "e", "c", "t", "i", "n", "g">>,
     <<"u_f8ff", "u_00fc", "u_00ee", "u_00e1">>}
MoveWords ==
    {<<"m", "o", "v", "e", "d">>,
     <<"m", "o", "v", "e", "d", " ", "t", "o">>,
     <<"s", "w", "i", "t", "c", "h", "e", "d">>}
MuteWords ==
    {<<"m", "u", "t", "e", "d">>,
     <<"u_f8ff", "u_00fc", "u_00ee", "u_00e1">>}
UnmuteWords ==
    {<<"u", "n", "m", "u", "t", "e", "d">>}
DeafenWords ==
    {<<"d", "e", "a", "f", "e", "n", "e", "d">>}
UndeafenWords ==
    {<<"u", "n", "d", "e", "a", "f", "e", "n", "e", "d">>}
OnlineWords ==
    {<<"o", "n", "l", "i", "n", "e">>}
OfflineWords ==
    {<<"o", "f", "f", "l", "i", "n", "e">>}
IdleWords ==
    {<<"i", "d", "l", "e">>,
     <<"a", "w", "a", "y">>}
DndWords ==
    {<<"d", "n", "d">>,
     <<"d", "i", "s", "t", "u", "r", "b">>}
MemberJoinWords ==
    {<<"j", "o", "i", "n", "e", "d", " ", "s", "e", "r", "v", "e", "r">>,
     <<"m", "e", "m", "b", "e", "r", " ", "j", "o", "i", "n", "e", "d">>}
MemberLeaveWords ==
    {<<"l", "e", "f", "t", " ", "s", "e", "r", "v", "e", "r">>,
     <<"m", "e", "m", "b", "e", "r", " ", "l", "e", "f", "t">>}
WarningWords ==
    {<<"w", "a", "r", "n", "i", "n", "g">>,
     <<"c", "a", "u", "t", "i", "o", "n">>,
     <<"a", "l", "e", "r", "t">>,
     <<"u_201a", "u_00f6", "u_2020", "u_00d4", "u_220f", "u_00e8">>}
ErrorWords ==
    {<<"e", "r", "r", "o", "r">>,
     <<"f", "a", "i", "l", "e", "d">>,
     <<"p", "r", "o", "b", "l", "e", "m">>,
     <<"i", "s", "s", "u", "e">>,
     <<"u_201a", "u_00f9", "u_00e5">>}
AdminWords ==
    {<<"a", "d", "m", "i", "n">>,
     <<"a", "d", "m", "i", "n", "i", "s", "t", "r", "a", "t", "o", "r">>,
     <<"m", "o", "d", "e", "r", "a", "t", "o", "r">>,
     <<"s", "t", "a", "f", "f">>}


\* the environment variable ColorConfig.get_color reads for an action type
EnvVarName(action_type) ==
    <<"D", "I", "S", "C", "O", "R", "D", "_", "C", "O", "L", "O", "R", "_">>
        \o Upper(action_type)

NoEnv == [name |-> None, value |-> None]

\* os.getenv(name)
GetEnv(e, name) == IF e.name = name THEN e.value ELSE None

\* ColorConfig.get_color on environment e
get_color_in(e, action_type) ==
    LET at == IF action_type = None \/ action_type = <<>>
              THEN DEFAULT ELSE action_type
        env_color == GetEnv(e, EnvVarName(at))
        stripped == StripChars(StripChars(env_color, {"#"}), {"0", "x"})
        parsed == ParseInt16(stripped)
        fallback == IF at \in ActionTypes THEN DEFAULT_COLORS(at)
                    ELSE DEFAULT_COLORS(DEFAULT)
    IN  IF env_color # None /\ env_color # <<>> /\ parsed.ok
        THEN parsed.val
        ELSE fallback

get_color(action_type) == get_color_in(env, action_type)

\* ColorConfig.validate_color
validate_color(color) == color \in Int /\ 0 <= color /\ color <= 16777215

\* a rule that asks for all of its keywords at once
AnyIn_All(s, kws) == \A k \in kws : Contains(s, k)

\* any(word in s for word in kws)
AnyIn(s, kws) == \E k \in kws : Contains(s, k)

infer_action_type(message) ==
    LET m == Lower(message)
    IN  IF AnyIn(m, JoinWords) /\ Contains(m, KW_channel) THEN VOICE_JOIN
        ELSE IF AnyIn(m, LeaveWords) /\ Contains(m, KW_channel)
             THEN VOICE_LEAVE
        ELSE IF AnyIn(m, MoveWords) /\ Contains(m, KW_channel) THEN VOICE_MOVE
        ELSE IF AnyIn(m, MuteWords) THEN VOICE_MUTE
        ELSE IF AnyIn(m, UnmuteWords) THEN VOICE_UNMUTE
        ELSE IF AnyIn(m, DeafenWords) THEN VOICE_DEAFEN
        ELSE IF AnyIn(m, UndeafenWords) THEN VOICE_UNDEAFEN
        ELSE IF AnyIn(m, OnlineWords) THEN STATUS_ONLINE
        ELSE IF AnyIn(m, OfflineWords) THEN STATUS_OFFLINE
        ELSE IF AnyIn(m, IdleWords) THEN STATUS_IDLE
        ELSE IF AnyIn(m, DndWords) THEN STATUS_DND
        ELSE IF AnyIn(m, MemberJoinWords) THEN MEMBER_JOIN
        ELSE IF AnyIn(m, MemberLeaveWords) THEN MEMBER_LEAVE
        ELSE IF AnyIn(m, WarningWords) THEN WARNING
        ELSE IF AnyIn(m, ErrorWords) THEN ERROR
        ELSE IF AnyIn(m, AdminWords) THEN ADMIN
        ELSE DEFAULT

\* the colour DiscordNotificationProvider._create_enhanced_embed gives the card
EmbedColor(message, action_type) ==
    LET color == IF action_type # None /\ action_type # <<>>
                 THEN get_color(action_type)
                 ELSE get_color(infer_action_type(message))
    IN  IF validate_color(color) THEN color ELSE get_color(DEFAULT)

-----------------------------------------------------------------------------
(* Colour policy: the environment is fixed when the process starts; the    *)
(* operations are ColorConfig.get_color and the construction of a card.    *)

OverrideAlphabet == {"0", "f", "x", "#", "-", "G"}

OverrideValues ==
    UNION {[1..n -> OverrideAlphabet] : n \in 0..MaxOverrideLen}

EnvNames == {EnvVarName(a) : a \in ActionTypes}

\* categories asked for: the enumeration, an absent one, an empty one, one
\* that is not in the default table and one in upper case
QueryCategories == ActionTypes \cup {None, <<>>, <<"z">>, Upper(ADMIN)}

MSG_UNRELATED == <<"h", "i">>
MSG_LEFT_CHANNEL == <<"L", "e", "f", "t", " ", "c", "h", "a", "n", "n", "e", "l">>

EmbedMessages == {MSG_UNRELATED, MSG_LEFT_CHANNEL}

NoColorCall == [op |-> "none", arg |-> None, message |-> None, result |-> 0,
                voice_channel_id |-> 0, server_id |-> 0, fields |-> <<>>]

NoCall == [recips |-> <<>>, rid |-> <<>>, message |-> [body |-> <<>>, fill |-> 0],
           ctx |-> [user_id |-> None, username |-> None,
                   display_name |-> None, nickname |-> None,
                    avatar_url |-> FALSE]]
NoProv == [path |-> "none", chunks |-> 0, k |-> 0]

MgrIdle ==
    /\ providers = [n \in {} |-> None]
    /\ tokenSet = FALSE
    /\ thumbsOn = FALSE
    /\ pc = "idle"
    /\ call = NoCall
    /\ idx = 0
    /\ results = <<>>
    /\ provOutcome = <<>>
    /\ prov = NoProv
    /\ log = <<>>

SanIdle ==
    /\ pieces = <<>>
    /\ sanOut = None
    /\ sanOut2 = None

ColorIdle ==
    /\ env = NoEnv
    /\ colorCall = NoColorCall

NoFmtOut == [done |-> FALSE, escaped |-> <<>>, text |-> <<>>]

FmtIdle ==
    /\ fmtIn = [body |-> <<>>, ctx |-> NoCall.ctx]
    /\ fmtOut = NoFmtOut

InferIdle ==
    /\ inferMsg = <<>>
    /\ inferOut = None

NoCacheOp ==
    [op |-> "none", key |-> <<>>, data |-> None, ok |-> FALSE,
     fault |-> FALSE, at |-> 0, repeated |-> FALSE,
     stats |-> [expired_removed |-> 0, size_limit_removed |-> 0]]

CacheIdle ==
    /\ dbAttached = FALSE
    /\ clock = 0
    /\ files = <<>>
    /\ records = <<>>
    /\ saved = <<>>
    /\ cacheOp = NoCacheOp

ReaderIds == {"r1", "r2"}

NoReader ==
    [pc |-> "idle", key |-> <<>>, expect |-> None, handle |-> None,
     result |-> None]

NoFetchOp ==
    [op |-> "none", user_id |-> <<>>, image |-> <<>>, result |-> None,
     api |-> "none", derive_failed |-> FALSE, read |-> FALSE,
     get_fault |-> FALSE, puts |-> 0, stored |-> FALSE, at |-> 0]

WriterIds == {"w1", "w2"}

NoWriter == [pc |-> "idle", key |-> <<>>, thumbnail_data |-> <<>>, ok |-> FALSE]

PicIdle ==
    /\ readers = [r \in ReaderIds |-> NoReader]
    /\ writers = [w \in WriterIds |-> NoWriter]
    /\ fetchOp = NoFetchOp

\* no document of notification_preferences, empty module dictionaries, no
\* member in a voice channel and no handler running
BotIdle ==
    /\ watched = {}
    /\ presence_cache = <<>>
    /\ presenceTasks = <<>>
    /\ voiceOf = <<>>
    /\ voice_state_cache = <<>>
    /\ watched_channel_users = <<>>
    /\ voiceTasks = <<>>

UnitIdle == FmtIdle /\ InferIdle /\ CacheIdle /\ PicIdle /\ BotIdle

InitColor ==
    /\ env \in {NoEnv} \cup [name : EnvNames, value : OverrideValues]
    /\ colorCall = NoColorCall
    /\ SanIdle
    /\ MgrIdle
    /\ UnitIdle

GetColor(action_type) ==
    /\ colorCall.op = "none"
    /\ colorCall' = [NoColorCall EXCEPT !.op = "get_color",
                                        !.arg = action_type,
                                        !.result = get_color(action_type)]
    /\ UNCHANGED <<env, sanVars, mgrVars, unitVars>>

\* Discord ids are positive integers; 0 stands for an id that is not given
\* (None), which the code tests by truth value only
NoId == 0
ChannelIds == {7, 12}
ServerIds == {40}
\* the channel the cards are built for
CardChannelIds == {12}

DecimalDigits == <<"0", "1", "2", "3", "4", "5", "6", "7", "8", "9">>

RECURSIVE Str(_)
\* str(n) of a non-negative integer, as f"{n}" formats it
Str(n) ==
    IF n < 10 THEN <<DecimalDigits[n + 1]>>
    ELSE Str(n \div 10) \o <<DecimalDigits[(n % 10) + 1]>>

\* a create_voice_channel_url that puts the channel before the server
create_voice_channel_url_Swapped(server_id, channel_id) ==
    <<"https://discord.com/channels/">> \o Str(channel_id) \o <<"/">>
        \o Str(server_id)

\* create_voice_channel_url; the fixed parts of a text are one token each
create_voice_channel_url(server_id, channel_id) ==
    <<"https://discord.com/channels/">> \o Str(server_id) \o <<"/">>
        \o Str(channel_id)

\* lines 126-141 of _create_enhanced_embed: the fields added for the voice
\* channel (u_1f399 is the pictograph of the field names, u_0060 the
\* backquote)
VoiceChannelFields(voice_channel_id, server_id) ==
    IF voice_channel_id # 0 /\ server_id # 0
    THEN <<[name |-> "u_1f399 Voice Channel",
            value |-> <<"[Join Voice Channel](">>
                         \o create_voice_channel_url(server_id, voice_channel_id)
                         \o <<")">>]>>
    ELSE IF voice_channel_id # 0 /\ ~(server_id # 0)
    THEN <<[name |-> "u_1f399 Voice Channel ID",
            value |-> <<"u_0060">> \o Str(voice_channel_id) \o <<"u_0060">>]>>
    ELSE <<>>

CreateEmbed(message, action_type, voice_channel_id, server_id) ==
    /\ colorCall.op = "none"
    /\ colorCall' = [op |-> "embed", arg |-> action_type, message |-> message,
                     result |-> EmbedColor(message, action_type),
                     voice_channel_id |-> voice_channel_id,
                     server_id |-> server_id,
                     fields |-> VoiceChannelFields(voice_channel_id, server_id)]
    /\ UNCHANGED <<env, sanVars, mgrVars, unitVars>>

NextColor ==
    \/ \E a \in QueryCategories : GetColor(a)
    \/ \E m \in EmbedMessages, a \in ActionTypes \cup {None} :
          /\ (a # None => m = MSG_UNRELATED)
          /\ CreateEmbed(m, a, NoId, NoId)
    \/ \E c \in CardChannelIds \cup {NoId}, g \in ServerIds \cup {NoId} :
          /\ c # NoId \/ g # NoId
          /\ CreateEmbed(MSG_UNRELATED, None, c, g)

SpecColor == InitColor /\ [][NextColor]_vars

-----------------------------------------------------------------------------
(* notifications/telegram_provider.py: _sanitize_telegram_html             *)

SUPPORTED_TAGS ==
    {<<"b">>, <<"i">>, <<"u">>, <<"s">>, <<"c", "o", "d", "e">>,
     <<"p", "r", "e">>, <<"a">>}

\* is_supported_tag: tag.lower().strip('<>/') in SUPPORTED_TAGS
is_supported_tag(tag) ==
    StripChars(Lower(tag), {"<", ">", "/"}) \in SUPPORTED_TAGS

\* 0-based offset of the first ">" after offset p, or -1
FirstClose(s, p) ==
    LET gts == {i \in (p + 1)..(Len(s) - 1) : s[i + 1] = ">"}
    IN  IF gts = {} THEN -1 ELSE CHOOSE i \in gts : \A j \in gts : i <= j

\* tag_pattern = <([^>]+)>(.*?)</\1> with DOTALL | IGNORECASE, tried at
\* offset p.  [^>]+ is followed by ">", so group 1 is the text up to the
\* first ">"; (.*?) is lazy, so the closing tag is the nearest one; the
\* back-reference is compared without regard to case.
TagMatch(s, p) ==
    LET q == FirstClose(s, p)
        name == Slice(s, p + 1, q)
        closing == <<"<", "/">> \o name \o <<">">>
        n == Len(closing)
        rs == {r \in (q + 1)..(Len(s) - n) :
                 /\ s[r + 1] = "<"
                 /\ Lower(SubSeq(s, r + 1, r + n)) = Lower(closing)}
        r0 == CHOOSE r \in rs : \A j \in rs : r <= j
    IN  IF s[p + 1] = "<" /\ q >= p + 2 /\ rs # {}
        THEN [found |-> TRUE, name |-> name, content |-> Slice(s, q + 1, r0),
              stop |-> r0 + n]
        ELSE [found |-> FALSE, name |-> <<>>, content |-> <<>>, stop |-> p]

\* replace_unsupported_tag that drops the text inside an unsupported pair
ReplaceUnsupportedTag_DropsContent(s, p, m) ==
    IF is_supported_tag(m.name) THEN Slice(s, p, m.stop) ELSE <<>>

\* replace_unsupported_tag
ReplaceUnsupportedTag(s, p, m) ==
    IF is_supported_tag(m.name) THEN Slice(s, p, m.stop) ELSE m.content

\* offset of the leftmost match of tag_pattern at or after p, or -1
NextTagMatch(s, p) ==
    LET ms == {i \in p..(Len(s) - 1) : s[i + 1] = "<" /\ TagMatch(s, i).found}
    IN  IF ms = {} THEN -1 ELSE CHOOSE i \in ms : \A j \in ms : i <= j

RECURSIVE SubTagPairs(_, _)
\* the substitution from offset p on, the next match being at offset i:
\* matches are taken left to right, do not overlap, and replacements are
\* not scanned again
SubTagPairsAt(s, p, i) ==
    IF i < 0 THEN Slice(s, p, Len(s))
    ELSE Slice(s, p, i) \o ReplaceUnsupportedTag(s, i, TagMatch(s, i))
             \o SubTagPairs(s, TagMatch(s, i).stop)

\* re.sub(tag_pattern, replace_unsupported_tag, s) from offset p on
SubTagPairs(s, p) == SubTagPairsAt(s, p, NextTagMatch(s, p))

\* self_closing_pattern = <([^>]+) */?> tried at offset p: the greedy
\* [^>]+ takes everything up to the first ">", " *" and "/?" match empty
SelfClosingMatch(s, p) ==
    LET q == FirstClose(s, p)
    IN  IF s[p + 1] = "<" /\ q >= p + 2
        THEN [found |-> TRUE, group |-> Slice(s, p + 1, q), stop |-> q + 1]
        ELSE [found |-> FALSE, group |-> <<>>, stop |-> p]

\* replace_self_closing; match.group(1).split()[0] raises IndexError when the
\* group is all whitespace
ReplaceSelfClosing(s, p, m) ==
    LET tag == FirstWord(m.group)
    IN  IF tag = Raised THEN Raised
        ELSE IF is_supported_tag(tag) THEN Slice(s, p, m.stop)
        ELSE <<>>

\* offset of the leftmost match of self_closing_pattern at or after p, or -1
NextSelfClosingMatch(s, p) ==
    LET ms == {i \in p..(Len(s) - 1) :
                 s[i + 1] = "<" /\ SelfClosingMatch(s, i).found}
    IN  IF ms = {} THEN -1 ELSE CHOOSE i \in ms : \A j \in ms : i <= j

RECURSIVE SubSelfClosing(_, _)
\* an exception of the replacement function ends the substitution
JoinOrRaise(a, b, c) == IF b = Raised \/ c = Raised THEN Raised ELSE a \o b \o c

\* the substitution from offset p on, the next match being at offset i
SubSelfClosingAt(s, p, i) ==
    IF i < 0 THEN Slice(s, p, Len(s))
    ELSE JoinOrRaise(Slice(s, p, i),
                     ReplaceSelfClosing(s, i, SelfClosingMatch(s, i)),
                     SubSelfClosing(s, SelfClosingMatch(s, i).stop))

\* re.sub(self_closing_pattern, replace_self_closing, s) from offset p on
SubSelfClosing(s, p) == SubSelfClosingAt(s, p, NextSelfClosingMatch(s, p))

\* _sanitize_telegram_html; the closing count of "<" and ">" only logs.
\* (The result of the first substitution is bound as a value, so that the
\* second one does not evaluate it again at every character it reads.)
sanitize_telegram_html(html_content) ==
    CHOOSE out \in {SubSelfClosing(sanitized, 0) :
                       sanitized \in {SubTagPairs(html_content, 0)}} : TRUE

-----------------------------------------------------------------------------
(* The sanitiser applied to bounded texts.  A text is a sequence of at most *)
(* MaxPieces tokens: tags with and without attributes, closing tags (one    *)
(* in upper case, one repeating the attribute), a self-closing tag, text.   *)

P_open_x == <<"<", "x", ">">>
P_close_x == <<"<", "/", "x", ">">>
P_close_X == <<"<", "/", "X", ">">>
P_self_x == <<"<", "x", "/", ">">>
P_open_b == <<"<", "b", ">">>
P_close_b == <<"<", "/", "b", ">">>
P_open_bc == <<"<", "b", " ", "c", ">">>
P_close_bc == <<"<", "/", "b", " ", "c", ">">>
P_text == <<"t">>

Pieces == {P_open_x, P_close_x, P_close_X, P_self_x, P_open_b, P_close_b,
           P_open_bc, P_close_bc, P_text}

PieceSeqs == UNION {[1..n -> Pieces] : n \in 0..MaxPieces}

RECURSIVE Flatten(_)
Flatten(ps) == IF ps = <<>> THEN <<>> ELSE Head(ps) \o Flatten(Tail(ps))

InitSan ==
    /\ pieces \in PieceSeqs
    /\ sanOut = None
    /\ sanOut2 = None
    /\ ColorIdle
    /\ MgrIdle
    /\ UnitIdle

\* the provider sanitises the composed text
SanitizeOnce ==
    /\ sanOut = None
    /\ sanOut' = sanitize_telegram_html(Flatten(pieces))
    /\ UNCHANGED <<pieces, sanOut2, colorVars, mgrVars, unitVars>>

\* the sanitised text is sanitised again
SanitizeAgain ==
    /\ sanOut \notin {None, Raised}
    /\ sanOut2 = None
    /\ sanOut2' = sanitize_telegram_html(sanOut)
    /\ UNCHANGED <<pieces, sanOut, colorVars, mgrVars, unitVars>>

NextSan == SanitizeOnce \/ SanitizeAgain

SpecSan == InitSan /\ [][NextSan]_vars

-----------------------------------------------------------------------------
(* notifications/base.py: UserContext; telegram_provider.py: formatting     *)

\* UserContext with joined_at and roles left at their default None; NoCtx
\* stands for user_context = None
NoCtx == [user_id |-> None, username |-> None, display_name |-> None,
          nickname |-> None, avatar_url |-> FALSE]

HasCtx(ctx) == ctx.user_id # None

Truthy(text) == text # None /\ text # <<>>

\* UserContext.get_display_name
get_display_name(ctx) ==
    IF Truthy(ctx.nickname) THEN ctx.nickname
    ELSE IF Truthy(ctx.display_name) THEN ctx.display_name
    ELSE IF Truthy(ctx.username) THEN ctx.username
    ELSE <<"U", "s", "e", "r", " ">> \o ctx.user_id

\* an escape that lets every character through
EscapeChar_Verbatim(c) == <<c>>

\* html.escape(c, quote=False) of one character
EscapeChar(c) ==
    IF c = "&" THEN <<"&", "a", "m", "p", ";">>
    ELSE IF c = "<" THEN <<"&", "l", "t", ";">>
    ELSE IF c = ">" THEN <<"&", "g", "t", ";">>
    ELSE <<c>>

RECURSIVE Escape(_)
\* html.escape(s, quote=False)
Escape(s) == IF s = <<>> THEN <<>> ELSE EscapeChar(Head(s)) \o Escape(Tail(s))

USERID_OPEN == <<"<", "c", "o", "d", "e", ">", "U", "s", "e", "r", " ", "I", "D", ":", " ">>
USERID_CLOSE == <<"<", "/", "c", "o", "d", "e", ">">>
PICTURE_NOTE == <<"u_1f5bc", " ", "P", "r", "o", "f", "i", "l", "e", " ", "p", "i", "c", "t", "u", "r", "e", " ", "a", "v", "a", "i", "l", "a", "b", "l", "e">>

\* _enhance_telegram_message; u_1f464 and u_1f5bc are the two pictographs
\* of the preamble (the second with its variation selector)
enhance_telegram_message(message, ctx, include_profile_picture) ==
    IF ~HasCtx(ctx) THEN message
    ELSE LET display_name == get_display_name(ctx)
             head == <<"<", "b", ">", "u_1f464", " ">> \o display_name
                        \o <<"<", "/", "b", ">">>
             line1 == IF Truthy(ctx.username) /\ ctx.username # display_name
                      THEN head \o <<" ", "(", "@">> \o ctx.username \o <<")">>
                      ELSE head
             line2 == USERID_OPEN \o ctx.user_id \o USERID_CLOSE
             line3 == IF ctx.avatar_url /\ include_profile_picture
                      THEN <<"\n">> \o PICTURE_NOTE ELSE <<>>
         IN  line1 \o <<"\n">> \o line2 \o line3 \o <<"\n", "\n">> \o message

\* a message is its leading text followed by fill further plain characters
\* that hold no "<", ">" or "&": escaping and sanitising leave them as they
\* are, and no match of either pattern reaches into them
MsgLen(message) == Len(message.body) + message.fill

RECURSIVE ChunkRanges(_, _, _)
\* the while loop that slices text[idx : idx + limit] until idx >= len(text)
ChunkRanges(total, limit, i) ==
    IF i >= total THEN <<>>
    ELSE <<[lo |-> i, hi |-> IF i + limit > total THEN total ELSE i + limit]>>
             \o ChunkRanges(total, limit, i + limit)

SAFE_LIMIT == 4000

\* lines 58-66 of _format_for_telegram: one chunk when the text fits, else
\* slices of SAFE_LIMIT characters
PaginateTelegram(sanitized_message, fill) ==
    IF sanitized_message = Raised THEN [raised |-> TRUE, chunks |-> <<>>]
    ELSE IF Len(sanitized_message) + fill <= SAFE_LIMIT
    THEN [raised |-> FALSE,
          chunks |-> <<[lo |-> 0, hi |-> Len(sanitized_message) + fill]>>]
    ELSE [raised |-> FALSE,
          chunks |-> ChunkRanges(Len(sanitized_message) + fill, SAFE_LIMIT, 0)]

\* lines 49-55 of _format_for_telegram: the message is escaped, the profile
\* preamble is put before it and the whole is sanitised; Raised when the
\* sanitiser raises
sanitized_message(body, ctx, include_profile_picture) ==
    CHOOSE out \in
        {sanitize_telegram_html(e) :
             e \in {enhance_telegram_message(Escape(body), ctx,
                                             include_profile_picture)}} : TRUE

\* _format_for_telegram: the chunks as offsets into the sanitised text;
\* raised when the sanitiser raises
format_for_telegram(message, ctx, include_profile_picture) ==
    CHOOSE out \in
        {PaginateTelegram(s, message.fill) :
             s \in {sanitized_message(message.body, ctx,
                                      include_profile_picture)}} : TRUE

-----------------------------------------------------------------------------
(* notifications/discord_provider.py: formatting                            *)

EMBED_LIMIT == 4000
MESSAGE_LIMIT == 2000

\* a _format_for_discord that chunks a message of exactly EMBED_LIMIT
\* characters
format_for_discord_Strict(message) ==
    IF MsgLen(message) < EMBED_LIMIT
    THEN [embed |-> TRUE, chunks |-> <<>>]
    ELSE [embed |-> FALSE,
          chunks |-> ChunkRanges(MsgLen(message), MESSAGE_LIMIT, 0)]

\* _format_for_discord: one card, or the chunks of the raw message
format_for_discord(message) ==
    IF MsgLen(message) <= EMBED_LIMIT
    THEN [embed |-> TRUE, chunks |-> <<>>]
    ELSE [embed |-> FALSE,
          chunks |-> ChunkRanges(MsgLen(message), MESSAGE_LIMIT, 0)]

-----------------------------------------------------------------------------
(* notifications/manager.py and the send_notification of both providers.   *)
(* One coroutine runs send_notification_all; every await of a transport    *)
(* call is a step that issues the call and a later step that receives its  *)
(* outcome, chosen by the environment.                                     *)

ChannelNames == {"discord", "telegram", "sms"}

\* main.py registers a DiscordNotificationProvider as "discord" and a
\* TelegramNotificationProvider as "telegram"; nothing registers "sms"
ProviderKind(name) == name
RegisteredNames == {"discord", "telegram"}

\* TelegramThumbnailConfig.is_enabled(): the class is imported by the
\* provider but is not part of the sources at hand; the specification gives
\* it as the switch that turns the image pipeline on
TelegramThumbnailConfig_is_enabled == thumbsOn

\* a provider just constructed: TelegramNotificationProvider.__init__
\* (setup is no attribute of the provider: it keeps how the last
\* initialize() of the provider ended, "new" before the first)
NewProvider(kind) ==
    [kind |-> kind, bot |-> FALSE, ppm |-> FALSE, setup |-> "new"]

\* recipient identifiers: int(user_id) succeeds on the first only
RecipientIds == {<<"7">>, <<"x">>}

IsDecimal(text) ==
    text # <<>> /\ \A i \in 1..Len(text) :
        text[i] \in {"0", "1", "2", "3", "4", "5", "6", "7", "8", "9"}

CtxPlain == [user_id |-> <<"7">>, username |-> <<"u">>,
             display_name |-> <<"t">>, nickname |-> None, avatar_url |-> TRUE]
CtxAngle == [user_id |-> <<"7">>, username |-> <<"u">>,
             display_name |-> <<"u">>, nickname |-> <<"<", " ", ">">>,
             avatar_url |-> FALSE]

Contexts == {NoCtx, CtxPlain, CtxAngle}

\* messages of 1, 2001, 4001, ... characters, and one of exactly EMBED_LIMIT
\* (= SAFE_LIMIT) characters
Messages ==
    {[body |-> <<"t">>, fill |-> f] :
        f \in {b * MESSAGE_LIMIT : b \in 0..MaxBlocks} \cup {EMBED_LIMIT - 1}}

RECURSIVE Orderings(_)
\* the insertion orders of a dict with the keys S
Orderings(S) ==
    IF S = {} THEN {<<>>}
    ELSE UNION {{<<x>> \o o : o \in Orderings(S \ {x})} : x \in S}

RecipientDicts == UNION {Orderings(S) : S \in SUBSET ChannelNames}

Range(f) == {f[i] : i \in DOMAIN f}

Put(f, k, v) == [x \in DOMAIN f \cup {k} |-> IF x = k THEN v ELSE f[x]]

InitMgr ==
    /\ providers = [n \in {} |-> None]
    /\ tokenSet \in BOOLEAN
    /\ thumbsOn \in BOOLEAN
    /\ pc = "idle"
    /\ call = NoCall
    /\ idx = 0
    /\ results = <<>>
    /\ provOutcome = <<>>
    /\ prov = NoProv
    /\ log = <<>>
    /\ ColorIdle
    /\ SanIdle
    /\ UnitIdle

\* a register_provider that keeps the provider a name already has
register_provider_KeepsFirst(registry, name, provider) ==
    IF name \in DOMAIN registry THEN registry ELSE Put(registry, name, provider)

\* self.providers[name] = provider
register_provider(registry, name, provider) == Put(registry, name, provider)

\* the providers a caller can pass for a name: one just constructed, as
\* main.py does, or the object it registered under that name before
ProvidersFor(name) ==
    {NewProvider(ProviderKind(name))}
        \cup {providers[n] : n \in {name} \cap DOMAIN providers}

\* NotificationManager.register_provider, called with a provider just
\* constructed or once more with the one the name has
RegisterProvider(name, again) ==
    /\ pc = "idle"
    /\ again => name \in DOMAIN providers
    /\ providers' = register_provider(providers, name,
                                      IF again THEN providers[name]
                                      ELSE NewProvider(ProviderKind(name)))
    /\ UNCHANGED <<tokenSet, thumbsOn, pc, call, idx, results, provOutcome,
                   prov, log, colorVars, sanVars, unitVars>>

\* what the construction of the TelegramProfilePictureManager can do: its
\* CacheManager creates the cache directory (telegram_images.py:111), which
\* raises OSError when the directory cannot be created
SetupOutcomes == {"ok", "raise"}

\* provider.initialize(): the rich-card provider has nothing to set up; the
\* styled-text provider raises ValueError without its token, before it has
\* a bot, and lets the exception of the picture manager's constructor out
\* after it has got its bot
InitializedProvider(p, ppm_outcome) ==
    IF p.kind # "telegram" THEN [p EXCEPT !.setup = "ok"]
    ELSE IF ~tokenSet THEN [p EXCEPT !.setup = "failed"]
    ELSE IF ~TelegramThumbnailConfig_is_enabled
    THEN [p EXCEPT !.bot = TRUE, !.setup = "ok"]
    ELSE IF ppm_outcome = "raise"
    THEN [p EXCEPT !.bot = TRUE, !.setup = "failed"]
    ELSE [p EXCEPT !.bot = TRUE, !.ppm = TRUE, !.setup = "ok"]

\* NotificationManager.initialize_providers: every provider is initialised,
\* an exception of one is logged and the loop goes on
InitializeProviders(ppm_outcome) ==
    /\ pc = "idle"
    /\ providers' = [n \in DOMAIN providers |->
                        InitializedProvider(providers[n], ppm_outcome)]
    /\ UNCHANGED <<tokenSet, thumbsOn, pc, call, idx, results, provOutcome,
                   prov, log, colorVars, sanVars, unitVars>>

\* send_notification_all is called: results = {} and the loop begins
SendAllStart(recips, rid, message, ctx) ==
    /\ pc = "idle"
    /\ call' = [recips |-> recips, rid |-> rid, message |-> message,
                ctx |-> ctx]
    /\ idx' = 1
    /\ results' = [n \in {} |-> FALSE]
    /\ provOutcome' = [n \in {} |-> "false"]
    /\ pc' = "loop"
    /\ UNCHANGED <<providers, tokenSet, thumbsOn, prov, log, colorVars,
                   sanVars, unitVars>>

Current == call.recips[idx]

Event(kind, path, i, ok) ==
    [ch |-> Current, ev |-> kind, path |-> path, i |-> i, ok |-> ok]

\* provider.send_notification ends with outcome "true", "false" or "raised".
\* A returned value is stored by line 52 and the loop goes on; an exception
\* passes through send_notification and send_notification_all, which have
\* no handler.
Finish(outcome, newLog) ==
    /\ provOutcome' = Put(provOutcome, Current, outcome)
    /\ log' = newLog
    /\ prov' = NoProv
    /\ IF outcome = "raised"
       THEN /\ pc' = "raised"
            /\ UNCHANGED <<results, idx>>
       ELSE /\ pc' = "loop"
            /\ results' = Put(results, Current, outcome = "true")
            /\ idx' = idx + 1

\* a send_notification that reports success for a name without provider
MissingProviderResult_True == TRUE

\* the value send_notification returns for a name without provider
MissingProviderResult == FALSE

\* a chunk loop that skips a chunk
NextChunk_Skips(k) == k + 2

\* the chunk sent after chunk k
NextChunk(k) == k + 1

\* the loop is exhausted: return results
SendAllReturn ==
    /\ pc = "loop"
    /\ idx > Len(call.recips)
    /\ pc' = "returned"
    /\ UNCHANGED <<providers, tokenSet, thumbsOn, call, idx, results,
                   provOutcome, prov, log, colorVars, sanVars, unitVars>>

\* send_notification with a name that has no provider
DispatchMissing ==
    /\ pc = "loop"
    /\ idx <= Len(call.recips)
    /\ Current \notin DOMAIN providers
    /\ results' = Put(results, Current, MissingProviderResult)
    /\ idx' = idx + 1
    /\ UNCHANGED <<providers, tokenSet, thumbsOn, pc, call, provOutcome, prov,
                   log, colorVars, sanVars, unitVars>>

\* DiscordNotificationProvider.send_notification up to its first await:
\* int(user_id), then client.fetch_user is issued
DispatchDiscord ==
    /\ pc = "loop"
    /\ idx <= Len(call.recips)
    /\ Current \in DOMAIN providers
    /\ providers[Current].kind = "discord"
    /\ IF IsDecimal(call.rid)
       THEN /\ pc' = "dc_fetch"
            /\ log' = Append(log, Event("start", "fetch_user", 0, TRUE))
            /\ UNCHANGED <<results, idx, provOutcome, prov>>
       ELSE Finish("false", log)
    /\ UNCHANGED <<providers, tokenSet, thumbsOn, call, colorVars, sanVars,
                   unitVars>>

\* the first send of a formatted rich-card notification is issued
DiscordFirstSend(newLog) ==
    LET formatted == format_for_discord(call.message)
    IN  /\ prov' = IF formatted.embed
                   THEN [path |-> "embed", chunks |-> 1, k |-> 1]
                   ELSE [path |-> "dm", chunks |-> Len(formatted.chunks),
                         k |-> 1]
        /\ log' = Append(newLog,
                         Event("start", IF formatted.embed THEN "embed" ELSE "dm",
                               1, TRUE))
        /\ pc' = "dc_send"
        /\ UNCHANGED <<results, idx, provOutcome>>

\* client.fetch_user completes: a user, None, or an exception
DiscordFetchDone(outcome) ==
    /\ pc = "dc_fetch"
    /\ LET newLog == Append(log, Event("end", "fetch_user", 0, outcome = "user"))
       IN  IF outcome = "user" THEN DiscordFirstSend(newLog)
           ELSE Finish("false", newLog)
    /\ UNCHANGED <<providers, tokenSet, thumbsOn, call, colorVars, sanVars,
                   unitVars>>

\* user.send completes: the next chunk is sent, or True is returned; an
\* exception is caught by "except Exception" and False is returned
DiscordSendDone(outcome) ==
    /\ pc = "dc_send"
    /\ LET newLog == Append(log, Event("end", prov.path, prov.k, outcome = "ok"))
       IN  IF outcome # "ok" THEN Finish("false", newLog)
           ELSE IF prov.k < prov.chunks
           THEN /\ prov' = [prov EXCEPT !.k = NextChunk(prov.k)]
                /\ log' = Append(newLog,
                                 Event("start", prov.path, NextChunk(prov.k), TRUE))
                /\ UNCHANGED <<pc, results, idx, provOutcome>>
           ELSE Finish("true", newLog)
    /\ UNCHANGED <<providers, tokenSet, thumbsOn, call, colorVars, sanVars,
                   unitVars>>

\* the text-only path of the styled-text provider begins: the text is
\* formatted (an exception of the formatter is no TelegramError) and
\* bot.send_message is issued for the first chunk
TelegramTextBegin(newLog) ==
    LET formatted == format_for_telegram(call.message, call.ctx, TRUE)
    IN  IF formatted.raised THEN Finish("raised", newLog)
        ELSE /\ prov' = [path |-> "text", chunks |-> Len(formatted.chunks),
                         k |-> 1]
             /\ log' = Append(newLog, Event("start", "text", 1, TRUE))
             /\ pc' = "tg_text"
             /\ UNCHANGED <<results, idx, provOutcome>>

\* TelegramNotificationProvider.send_notification up to its first await
DispatchTelegram ==
    /\ pc = "loop"
    /\ idx <= Len(call.recips)
    /\ Current \in DOMAIN providers
    /\ providers[Current].kind = "telegram"
    /\ IF ~providers[Current].bot THEN Finish("false", log)
       ELSE IF providers[Current].ppm /\ TelegramThumbnailConfig_is_enabled
                 /\ HasCtx(call.ctx)
                 /\ Truthy(call.ctx.user_id)
       THEN /\ pc' = "tg_thumb"
            /\ log' = Append(log, Event("start", "get_thumbnail", 0, TRUE))
            /\ UNCHANGED <<results, idx, provOutcome, prov>>
       ELSE TelegramTextBegin(log)
    /\ UNCHANGED <<providers, tokenSet, thumbsOn, call, colorVars, sanVars,
                   unitVars>>

\* get_thumbnail_for_user completes with bytes or with None (it catches
\* every exception itself).  With bytes the caption is formatted and
\* bot.send_photo is issued; a formatter exception is caught by the inner
\* "except Exception" and the text path is taken.
TelegramThumbDone(outcome) ==
    /\ pc = "tg_thumb"
    /\ LET newLog == Append(log, Event("end", "get_thumbnail", 0,
                                       outcome = "thumb"))
           caption == format_for_telegram(call.message, call.ctx, FALSE)
       IN  IF outcome = "thumb" /\ ~caption.raised
           THEN /\ prov' = [path |-> "photo", chunks |-> Len(caption.chunks),
                            k |-> 1]
                /\ log' = Append(newLog, Event("start", "photo", 1, TRUE))
                /\ pc' = "tg_photo"
                /\ UNCHANGED <<results, idx, provOutcome>>
           ELSE TelegramTextBegin(newLog)
    /\ UNCHANGED <<providers, tokenSet, thumbsOn, call, colorVars, sanVars,
                   unitVars>>

\* a send of the image path completes (send_photo for the first chunk,
\* send_message for the others): on success the next chunk or return True;
\* any exception is caught by the inner handler and the text path is taken
TelegramPhotoSendDone(outcome) ==
    /\ pc = "tg_photo"
    /\ LET newLog == Append(log, Event("end", "photo", prov.k, outcome = "ok"))
       IN  IF outcome # "ok" THEN TelegramTextBegin(newLog)
           ELSE IF prov.k < prov.chunks
           THEN /\ prov' = [prov EXCEPT !.k = NextChunk(prov.k)]
                /\ log' = Append(newLog,
                                 Event("start", "photo", NextChunk(prov.k), TRUE))
                /\ UNCHANGED <<pc, results, idx, provOutcome>>
           ELSE Finish("true", newLog)
    /\ UNCHANGED <<providers, tokenSet, thumbsOn, call, colorVars, sanVars,
                   unitVars>>

\* bot.send_message of the text path completes: a TelegramError is caught
\* and False returned; any other exception leaves the provider
TelegramTextSendDone(outcome) ==
    /\ pc = "tg_text"
    /\ LET newLog == Append(log, Event("end", "text", prov.k, outcome = "ok"))
       IN  IF outcome = "TelegramError" THEN Finish("false", newLog)
           ELSE IF outcome = "OtherError" THEN Finish("raised", newLog)
           ELSE IF prov.k < prov.chunks
           THEN /\ prov' = [prov EXCEPT !.k = NextChunk(prov.k)]
                /\ log' = Append(newLog,
                                 Event("start", "text", NextChunk(prov.k), TRUE))
                /\ UNCHANGED <<pc, results, idx, provOutcome>>
           ELSE Finish("true", newLog)
    /\ UNCHANGED <<providers, tokenSet, thumbsOn, call, colorVars, sanVars,
                   unitVars>>

SendOutcomes == {"ok", "TelegramError", "OtherError"}

Next ==
    \/ \E n \in RegisteredNames, again \in BOOLEAN : RegisterProvider(n, again)
    \/ \E o \in SetupOutcomes : InitializeProviders(o)
    \/ \E r \in RecipientDicts, rid \in RecipientIds, m \in Messages,
          c \in Contexts : SendAllStart(r, rid, m, c)
    \/ SendAllReturn
    \/ DispatchMissing
    \/ DispatchDiscord
    \/ \E o \in {"user", "none", "raise"} : DiscordFetchDone(o)
    \/ \E o \in {"ok", "raise"} : DiscordSendDone(o)
    \/ DispatchTelegram
    \/ \E o \in {"thumb", "absent"} : TelegramThumbDone(o)
    \/ \E o \in SendOutcomes : TelegramPhotoSendDone(o)
    \/ \E o \in SendOutcomes : TelegramTextSendDone(o)

Spec == InitMgr /\ [][Next]_vars

-----------------------------------------------------------------------------
(* The formatter of the styled-text provider applied to bounded messages:   *)
(* the message is any text of at most MaxMsgLen characters over the markup  *)
(* characters and two letters, with no profile or with one of four.         *)

MsgAlphabet == {"<", ">", "&", "/", "b", "x"}

MsgBodies == UNION {[1..n -> MsgAlphabet] : n \in 0..MaxMsgLen}

\* a profile whose nickname opens a tag and never closes it
CtxOpen == [user_id |-> <<"7">>, username |-> <<"u">>,
            display_name |-> <<"u">>, nickname |-> <<"<", "x">>,
            avatar_url |-> TRUE]

\* a profile whose nickname is an unsupported opening tag
CtxTag == [user_id |-> <<"7">>, username |-> <<"u">>,
           display_name |-> <<"u">>, nickname |-> <<"<", "x", ">">>,
           avatar_url |-> FALSE]

\* a profile whose nickname is an opening tag of the dialect
CtxBold == [user_id |-> <<"7">>, username |-> <<"u">>,
            display_name |-> <<"u">>, nickname |-> <<"<", "b", ">">>,
            avatar_url |-> FALSE]

FmtContexts == {NoCtx, CtxPlain, CtxAngle, CtxOpen, CtxTag, CtxBold}

InitFmt ==
    /\ fmtIn \in [body : MsgBodies, ctx : FmtContexts]
    /\ fmtOut = NoFmtOut
    /\ ColorIdle
    /\ SanIdle
    /\ MgrIdle
    /\ InferIdle
    /\ CacheIdle
    /\ PicIdle
    /\ BotIdle

\* _format_for_telegram(message, user_context) on a message that fits one
\* chunk: the escaped message and the text handed to the transport
FormatMessage ==
    /\ ~fmtOut.done
    /\ fmtOut' = [done |-> TRUE, escaped |-> Escape(fmtIn.body),
                  text |-> sanitized_message(fmtIn.body, fmtIn.ctx, TRUE)]
    /\ UNCHANGED <<fmtIn, colorVars, sanVars, mgrVars, inferVars, cacheVars,
                   picVars, botVars>>

NextFmt == FormatMessage

SpecFmt == InitFmt /\ [][NextFmt]_vars

-----------------------------------------------------------------------------
(* The classifier applied to bounded messages: at most MaxWords words or   *)
(* phrases of a vocabulary that holds keywords of every group of rules,    *)
(* the word "channel" and a word that is no keyword, written in lower or   *)
(* upper case.                                                             *)

InferWords ==
    {<<"j", "o", "i", "n", "e", "d">>,
     <<"l", "e", "f", "t">>,
     <<"d", "i", "s", "c", "o", "n", "n", "e", "c", "t", "i", "n", "g">>,
     <<"m", "o", "v", "e", "d">>,
     <<"m", "u", "t", "e", "d">>,
     <<"u", "n", "m", "u", "t", "e", "d">>,
     <<"u", "n", "d", "e", "a", "f", "e", "n", "e", "d">>,
     <<"o", "n", "l", "i", "n", "e">>,
     <<"j", "o", "i", "n", "e", "d", " ", "s", "e", "r", "v", "e", "r">>,
     <<"l", "e", "f", "t", " ", "s", "e", "r", "v", "e", "r">>,
     <<"m", "e", "m", "b", "e", "r", " ", "l", "e", "f", "t">>,
     <<"w", "a", "r", "n", "i", "n", "g">>,
     <<"f", "a", "i", "l", "e", "d">>,
     <<"s", "t", "a", "f", "f">>,
     <<"c", "h", "a", "n", "n", "e", "l">>,
     <<"h", "i">>}

RECURSIVE SpaceJoin(_)
\* " ".join(ws)
SpaceJoin(ws) ==
    IF ws = <<>> THEN <<>>
    ELSE IF Len(ws) = 1 THEN ws[1]
    ELSE ws[1] \o <<" ">> \o SpaceJoin(Tail(ws))

InferMessages ==
    {SpaceJoin(ws) : ws \in UNION {[1..n -> InferWords] : n \in 0..MaxWords}}

InitInfer ==
    /\ inferMsg \in InferMessages \cup {Upper(m) : m \in InferMessages}
    /\ inferOut = None
    /\ ColorIdle
    /\ SanIdle
    /\ MgrIdle
    /\ FmtIdle
    /\ CacheIdle
    /\ PicIdle
    /\ BotIdle

\* infer_action_type(message)
Classify ==
    /\ inferOut = None
    /\ inferOut' = infer_action_type(inferMsg)
    /\ UNCHANGED <<inferMsg, colorVars, sanVars, mgrVars, fmtVars, cacheVars,
                   picVars, botVars>>

NextInfer == Classify

SpecInfer == InitInfer /\ [][NextInfer]_vars

-----------------------------------------------------------------------------
(* notifications/telegram_images.py: CacheManager.  Time is counted in     *)
(* hours and file sizes in mebibytes (one element of a thumbnail's data is *)
(* one mebibyte).  A call of the metadata collection either completes or   *)
(* raises; which one is the environment's choice.                          *)

\* TelegramThumbnailConfig.get_cache_ttl_hours() and get_cache_max_size_mb():
\* the class is not part of the sources at hand; the values are settings
CACHE_TTL_HOURS == 1
CACHE_MAX_SIZE_MB == 2

\* a key that forgets the picture
get_cache_key_UserOnly(user_id, image_hash) == user_id

\* a key that forgets the user
get_cache_key_HashOnly(user_id, image_hash) == image_hash

\* _get_cache_key
get_cache_key(user_id, image_hash) == user_id \o <<"_">> \o image_hash

\* _get_cache_path, relative to cache_dir
get_cache_path(cache_key) == cache_key \o <<".", "j", "p", "g">>

\* the cache is used with user identifiers made of digits and SHA-256
\* digests in hexadecimal; two users whose pictures have the same digest
CacheKeys == {<<<<"1">>, <<"a">>>>, <<<<"1", "2">>, <<"a">>>>}

\* the pictures a download returns: two that decode as images and one
\* that does not
IMAGE_A == <<"A">>
IMAGE_B == <<"B">>
IMAGE_CORRUPT == <<"X">>

Images == {IMAGE_A, IMAGE_B, IMAGE_CORRUPT}

\* ImageProcessor.validate_image_data
validate_image_data(image_data) == image_data \in {IMAGE_A, IMAGE_B}

\* ImageProcessor.calculate_image_hash: the SHA-256 digest, in hexadecimal;
\* different pictures have different digests
calculate_image_hash(image_data) ==
    IF image_data = IMAGE_A THEN <<"a">>
    ELSE IF image_data = IMAGE_B THEN <<"2", "a">>
    ELSE <<"f">>

\* ImageProcessor.create_thumbnail: a JPEG of the configured size, the same
\* for the same picture; PIL raises on data it cannot decode
create_thumbnail(image_data) ==
    IF image_data = IMAGE_A THEN <<"p">>
    ELSE IF image_data = IMAGE_B THEN <<"q", "q">>
    ELSE Raised

\* the users whose profile picture is fetched
PictureUsers == {<<"1">>}

PictureKeys ==
    {<<u, calculate_image_hash(i)>> : u \in PictureUsers, i \in Images}

\* the path of the file of each key <<user_id, image_hash>>
CachePaths ==
    [k \in CacheKeys \cup PictureKeys |->
        get_cache_path(get_cache_key(k[1], k[2]))]

PathOf(k) == CachePaths[k]

\* f without the arguments in S
Without(f, S) == [x \in DOMAIN f \ S |-> f[x]]

RECURSIVE TotalSize(_)
\* sum(f.stat().st_size for f in self.cache_dir.glob("*.jpg"))
TotalSize(fs) ==
    IF DOMAIN fs = {} THEN 0
    ELSE LET f == CHOOSE f \in DOMAIN fs : TRUE
         IN  Len(fs[f].data) + TotalSize(Without(fs, {f}))

\* _remove_from_cache(user_id, image_hash): the file is unlinked, then the
\* record is deleted unless delete_one raises
RemoveFromCache(fs, recs, k, db, delete) ==
    [files |-> Without(fs, {PathOf(k)}),
     records |-> IF db /\ delete = "ok" THEN Without(recs, {k}) ELSE recs,
     fault |-> db /\ delete # "ok"]

\* get_cached_thumbnail(user_id, image_hash) at time now; find and delete
\* are the outcomes of find_one and delete_one.  data is the value returned
GetCached(fs, recs, k, db, now, find, delete) ==
    LET cache_path == PathOf(k)
        miss == [files |-> fs, records |-> recs, data |-> None,
                 fault |-> FALSE]
        read == [miss EXCEPT !.data = fs[cache_path].data]
        removed == RemoveFromCache(fs, recs, k, db, delete)
    IN  IF cache_path \notin DOMAIN fs THEN miss
        ELSE IF db
        THEN IF find # "ok" THEN [miss EXCEPT !.fault = TRUE]
             ELSE IF k \in DOMAIN recs
                     /\ now - recs[k].created_at > CACHE_TTL_HOURS
             THEN [files |-> removed.files, records |-> removed.records,
                   data |-> None, fault |-> removed.fault]
             ELSE read
        ELSE IF now - fs[cache_path].mtime > CACHE_TTL_HOURS
             THEN [miss EXCEPT !.files = Without(fs, {cache_path})]
             ELSE read

\* save_thumbnail(user_id, image_hash, thumbnail_data) at time now; update
\* is the outcome of update_one.  The file is written first
SaveThumb(fs, recs, k, thumbnail_data, db, now, update) ==
    [files |-> Put(fs, PathOf(k), [data |-> thumbnail_data, mtime |-> now]),
     records |-> IF db /\ update = "ok"
                 THEN Put(recs, k, [cache_path |-> PathOf(k),
                                    created_at |-> now,
                                    file_size |-> Len(thumbnail_data)])
                 ELSE recs,
     ok |-> ~db \/ update = "ok"]

RECURSIVE EvictOldest(_, _, _, _)
\* the while loop of the size phase: cache_files is the list sorted at the
\* start of cleanup_cache, from which the expired files were not taken out
EvictOldest(cache_files, total_size, fs, removed) ==
    IF total_size > CACHE_MAX_SIZE_MB /\ cache_files # <<>>
    THEN LET oldest_file == Head(cache_files)
         IN  IF oldest_file \in DOMAIN fs
             THEN EvictOldest(Tail(cache_files),
                              total_size - Len(fs[oldest_file].data),
                              Without(fs, {oldest_file}), removed + 1)
             ELSE EvictOldest(Tail(cache_files), total_size, fs, removed)
    ELSE [files |-> fs, removed |-> removed]

\* the list as glob gives it, left unsorted
SortedCacheFiles_Unsorted(fs) == Orderings(DOMAIN fs)

\* list(cache_dir.glob("*.jpg")) after the stable sort by st_mtime: files of
\* equal modification time keep the order glob gave them, which is any
SortedCacheFiles(fs) ==
    {o \in Orderings(DOMAIN fs) :
        \A i \in 1..Len(o) : \A j \in i..Len(o) :
            fs[o[i]].mtime <= fs[o[j]].mtime}

\* the records _cleanup_orphaned_metadata looks for: their cache_path does
\* not exist
OrphanedMetadata(fs, recs) ==
    {k \in DOMAIN recs : recs[k].cache_path \notin DOMAIN fs}

\* a cleanup whose expiry loop stops after the first file it removed
CleanupFiles_OneExpired(fs, now, cache_files) ==
    LET all == {f \in DOMAIN fs : fs[f].mtime < now - CACHE_TTL_HOURS}
        expired == IF all = {} THEN {} ELSE {CHOOSE f \in all : TRUE}
        kept == Without(fs, expired)
        evicted == EvictOldest(cache_files, TotalSize(kept), kept, 0)
    IN  [files |-> evicted.files,
         stats |-> [expired_removed |-> Cardinality(expired),
                    size_limit_removed |-> evicted.removed]]

\* a cleanup that also takes the files whose age is exactly the TTL
CleanupFiles_AtTtl(fs, now, cache_files) ==
    LET expired == {f \in DOMAIN fs : fs[f].mtime <= now - CACHE_TTL_HOURS}
        kept == Without(fs, expired)
        evicted == EvictOldest(cache_files, TotalSize(kept), kept, 0)
    IN  [files |-> evicted.files,
         stats |-> [expired_removed |-> Cardinality(expired),
                    size_limit_removed |-> evicted.removed]]

\* cleanup_cache up to line 268, at time now with the sorted list
\* cache_files: the expiry phase, then the size phase
CleanupFiles(fs, now, cache_files) ==
    LET cutoff_time == now - CACHE_TTL_HOURS
        expired == {f \in DOMAIN fs : fs[f].mtime < cutoff_time}
        kept == Without(fs, expired)
        evicted == EvictOldest(cache_files, TotalSize(kept), kept, 0)
    IN  [files |-> evicted.files,
         stats |-> [expired_removed |-> Cardinality(expired),
                    size_limit_removed |-> evicted.removed]]

\* thumbnails of one and of two mebibytes
Thumbnails == {<<"p">>, <<"q", "q">>}

StoreOutcomes == {"ok", "raise"}

InitCache ==
    /\ dbAttached \in BOOLEAN
    /\ clock = 0
    /\ files = <<>>
    /\ records = <<>>
    /\ saved = <<>>
    /\ cacheOp = NoCacheOp
    /\ ColorIdle
    /\ SanIdle
    /\ MgrIdle
    /\ FmtIdle
    /\ InferIdle
    /\ PicIdle
    /\ BotIdle

\* an hour passes
Tick ==
    /\ clock < MaxTime
    /\ clock' = clock + 1
    /\ UNCHANGED <<dbAttached, files, records, saved, cacheOp, colorVars,
                   sanVars, mgrVars, fmtVars, inferVars, picVars, botVars>>

\* CacheManager.save_thumbnail
SaveThumbnail(k, thumbnail_data, update) ==
    /\ ~dbAttached => update = "ok"
    /\ LET r == SaveThumb(files, records, k, thumbnail_data, dbAttached,
                          clock, update)
       IN  /\ files' = r.files
           /\ records' = r.records
           /\ saved' = IF r.ok
                       THEN Put(saved, k, [data |-> thumbnail_data,
                                           at |-> clock])
                       ELSE Without(saved, {k})
           /\ cacheOp' = [NoCacheOp EXCEPT !.op = "save", !.key = k,
                                           !.data = thumbnail_data,
                                           !.ok = r.ok, !.fault = ~r.ok,
                                           !.at = clock]
    /\ UNCHANGED <<dbAttached, clock, colorVars, sanVars, mgrVars, fmtVars,
                   inferVars, picVars, botVars>>

\* CacheManager.get_cached_thumbnail
GetCachedThumbnail(k, find, delete) ==
    /\ ~dbAttached => (find = "ok" /\ delete = "ok")
    /\ LET r == GetCached(files, records, k, dbAttached, clock, find, delete)
       IN  /\ files' = r.files
           /\ records' = r.records
           /\ cacheOp' = [NoCacheOp EXCEPT !.op = "get", !.key = k,
                                           !.data = r.data,
                                           !.ok = (r.data # None),
                                           !.fault = r.fault,
                                           !.at = clock]
    /\ UNCHANGED <<dbAttached, clock, saved, colorVars, sanVars, mgrVars,
                   fmtVars, inferVars, picVars, botVars>>

\* CacheManager.cleanup_cache; when it calls _cleanup_orphaned_metadata the
\* records in deleted are the ones delete_one removed before the loop ended
\* or a call of the collection raised
CleanupCache ==
    \E cache_files \in SortedCacheFiles(files),
       deleted \in SUBSET DOMAIN records :
    /\ LET r == CleanupFiles(files, clock, cache_files)
           reconcile == dbAttached /\ (r.stats.expired_removed > 0
                                        \/ r.stats.size_limit_removed > 0)
           orphans == OrphanedMetadata(r.files, records)
       IN  /\ deleted \subseteq orphans
           /\ reconcile \/ deleted = {}
           /\ files' = r.files
           /\ records' = Without(records, deleted)
           /\ saved' = <<>>
           /\ cacheOp' = [NoCacheOp EXCEPT !.op = "cleanup", !.ok = TRUE,
                                           !.fault = (reconcile
                                                      /\ deleted # orphans),
                                           !.at = clock,
                                           !.repeated =
                                               (cacheOp.op = "cleanup"
                                                /\ cacheOp.at = clock),
                                           !.stats = r.stats]
    /\ UNCHANGED <<dbAttached, clock, colorVars, sanVars, mgrVars, fmtVars,
                   inferVars, picVars, botVars>>

NextCache ==
    \/ Tick
    \/ \E k \in CacheKeys, d \in Thumbnails, u \in StoreOutcomes :
          SaveThumbnail(k, d, u)
    \/ \E k \in CacheKeys, f \in StoreOutcomes, d \in StoreOutcomes :
          GetCachedThumbnail(k, f, d)
    \/ CleanupCache

SpecCache == InitCache /\ [][NextCache]_vars

-----------------------------------------------------------------------------
(* TelegramProfilePictureManager.get_thumbnail_for_user.  api tells how far *)
(* the calls of the Telegram API and the download got; image is what the    *)
(* download returned; derive tells whether create_thumbnail raised; find,   *)
(* delete and update are the outcomes of the calls of the collection.       *)

ApiOutcomes ==
    {"photos_error", "no_photo", "file_error", "download_error", "ok"}

\* an exception that leaves get_thumbnail_for_user uncaught
ThumbnailOrNone_Reraises(v) == v

\* except TelegramError and except Exception of get_thumbnail_for_user:
\* both return None
ThumbnailOrNone(v) == IF v = Raised THEN None ELSE v

\* the body of the try block: value is what it returns, or Raised; read
\* tells whether the cache was consulted, puts counts save_thumbnail calls
\* and stored is what save_thumbnail returned
GetThumbnailForUser(fs, recs, user_id, image, db, now, api, find, delete, derive, update) ==
    LET untouched == [files |-> fs, records |-> recs, value |-> None,
                      read |-> FALSE, get_fault |-> FALSE, puts |-> 0,
                      stored |-> FALSE]
        image_hash == calculate_image_hash(image)
        k == <<user_id, image_hash>>
        cached == GetCached(fs, recs, k, db, now, find, delete)
        looked == [untouched EXCEPT !.files = cached.files,
                                    !.records = cached.records,
                                    !.read = TRUE,
                                    !.get_fault = cached.fault]
        thumbnail_data == IF derive = "ok" THEN create_thumbnail(image)
                          ELSE Raised
        put == SaveThumb(cached.files, cached.records, k, thumbnail_data,
                         db, now, update)
    IN  IF api = "no_photo" THEN untouched
        ELSE IF api # "ok" THEN [untouched EXCEPT !.value = Raised]
        ELSE IF ~validate_image_data(image) THEN untouched
        ELSE IF Truthy(cached.data) THEN [looked EXCEPT !.value = cached.data]
        ELSE IF thumbnail_data = Raised THEN [looked EXCEPT !.value = Raised]
        ELSE [files |-> put.files, records |-> put.records,
              value |-> thumbnail_data, read |-> TRUE,
              get_fault |-> cached.fault, puts |-> 1, stored |-> put.ok]

\* one call of get_thumbnail_for_user(user_id); an outcome of a call that
\* is not reached is written "ok", and so is the picture IMAGE_A when
\* nothing is downloaded
FetchThumbnail(user_id, image, api, find, delete, derive, update) ==
    /\ ~dbAttached => (find = "ok" /\ delete = "ok" /\ update = "ok")
    /\ api # "ok" => image = IMAGE_A
    /\ ~(api = "ok" /\ validate_image_data(image))
          => (find = "ok" /\ delete = "ok" /\ derive = "ok"
              /\ update = "ok")
    /\ \E r \in {GetThumbnailForUser(files, records, user_id, image,
                                      dbAttached, clock, api, find, delete,
                                      derive, update)},
          k \in {<<user_id, calculate_image_hash(image)>>} :
           /\ files' = r.files
           /\ records' = r.records
           /\ saved' = IF r.puts = 0 THEN saved
                       ELSE IF r.stored
                       THEN Put(saved, k, [data |-> r.value, at |-> clock])
                       ELSE Without(saved, {k})
           /\ cacheOp' = IF ~r.read THEN cacheOp
                         ELSE IF r.puts = 0
                         THEN [NoCacheOp EXCEPT !.op = "get", !.key = k,
                                                !.data = r.value,
                                                !.ok = (r.value # Raised),
                                                !.at = clock]
                         ELSE [NoCacheOp EXCEPT !.op = "save", !.key = k,
                                                !.data = r.value,
                                                !.ok = r.stored,
                                                !.fault = ~r.stored,
                                                !.at = clock]
           /\ fetchOp' = [op |-> "fetch", user_id |-> user_id,
                          image |-> image,
                          result |-> ThumbnailOrNone(r.value),
                          api |-> api,
                          derive_failed |-> (r.read /\ r.value = Raised),
                          read |-> r.read, get_fault |-> r.get_fault,
                          puts |-> r.puts,
                          stored |-> r.stored, at |-> clock]
    /\ UNCHANGED <<dbAttached, clock, readers, writers, colorVars, sanVars, mgrVars,
                   fmtVars, inferVars, botVars>>

NextThumb ==
    \/ Tick
    \/ \E u \in PictureUsers, a \in ApiOutcomes \ {"ok"} :
          FetchThumbnail(u, IMAGE_A, a, "ok", "ok", "ok", "ok")
    \/ \E u \in PictureUsers :
          FetchThumbnail(u, IMAGE_CORRUPT, "ok", "ok", "ok", "ok", "ok")
    \/ \E u \in PictureUsers, i \in Images \ {IMAGE_CORRUPT},
          f \in StoreOutcomes, d \in StoreOutcomes, c \in StoreOutcomes,
          s \in StoreOutcomes : FetchThumbnail(u, i, "ok", f, d, c, s)

SpecThumb == InitCache /\ [][NextThumb]_vars

-----------------------------------------------------------------------------
(* get_cached_thumbnail as a coroutine.  The event loop runs another        *)
(* coroutine only at an await: of find_one, of delete_one, of aiofiles.open *)
(* and of f.read().  cleanup_cache unlinks its files without an await in    *)
(* between, and the records it deletes afterwards belong to files that are  *)
(* already gone, so it is one step.  Saves are made while no read is in     *)
(* flight.                                                                  *)

\* an exception that leaves get_cached_thumbnail uncaught
CaughtAsNone_Reraises(v) == v

\* except Exception of get_cached_thumbnail: the error is logged and None
\* is returned
CaughtAsNone(v) == IF v = Raised THEN None ELSE v

\* aiofiles.open(cache_path, 'rb'): the content the handle gives access to,
\* or FileNotFoundError
OpenFile(fs, cache_path) ==
    IF cache_path \in DOMAIN fs THEN fs[cache_path].data ELSE Raised

Quiet == \A r \in ReaderIds : readers[r].pc \in {"idle", "done"}

\* the coroutine returns value or ends with the exception value stands for
Finished(reader, value) ==
    [reader EXCEPT !.pc = "done", !.handle = None,
                   !.result = CaughtAsNone(value)]

\* get_cached_thumbnail up to its first await; expect is the content of
\* the file of the key at that moment
ReadBegin(r, k) ==
    /\ readers[r].pc \in {"idle", "done"}
    /\ LET cache_path == PathOf(k)
           started == [NoReader EXCEPT !.key = k]
       IN  IF cache_path \notin DOMAIN files
           THEN /\ readers' = [readers EXCEPT ![r] = Finished(started, None)]
                /\ UNCHANGED files
           ELSE LET reading ==
                        [started EXCEPT !.expect = files[cache_path].data]
                IN  IF dbAttached
                    THEN /\ readers' = [readers EXCEPT ![r] =
                                           [reading EXCEPT !.pc = "find"]]
                         /\ UNCHANGED files
                    ELSE IF clock - files[cache_path].mtime > CACHE_TTL_HOURS
                    THEN /\ files' = Without(files, {cache_path})
                         /\ readers' = [readers EXCEPT ![r] =
                                           Finished(reading, None)]
                    ELSE /\ readers' = [readers EXCEPT ![r] =
                                           [reading EXCEPT !.pc = "open"]]
                         /\ UNCHANGED files
    /\ UNCHANGED <<dbAttached, clock, records, saved, cacheOp, writers, fetchOp,
                   colorVars, sanVars, mgrVars, fmtVars, inferVars, botVars>>

\* find_one answered or raised; an expired record makes _remove_from_cache
\* unlink the file, if it is still there, and await delete_one
ReadFound(r, find) ==
    /\ readers[r].pc = "find"
    /\ LET k == readers[r].key
       IN  IF find # "ok"
           THEN /\ readers' = [readers EXCEPT ![r] =
                                  Finished(readers[r], Raised)]
                /\ UNCHANGED files
           ELSE IF k \in DOMAIN records
                   /\ clock - records[k].created_at > CACHE_TTL_HOURS
           THEN /\ files' = Without(files, {PathOf(k)})
                /\ readers' = [readers EXCEPT ![r].pc = "delete"]
           ELSE /\ readers' = [readers EXCEPT ![r].pc = "open"]
                /\ UNCHANGED files
    /\ UNCHANGED <<dbAttached, clock, records, saved, cacheOp, writers, fetchOp,
                   colorVars, sanVars, mgrVars, fmtVars, inferVars, botVars>>

\* delete_one answered or raised inside _remove_from_cache, which catches
ReadDeleted(r, delete) ==
    /\ readers[r].pc = "delete"
    /\ records' = IF delete = "ok"
                  THEN Without(records, {readers[r].key})
                  ELSE records
    /\ readers' = [readers EXCEPT ![r] = Finished(readers[r], None)]
    /\ UNCHANGED <<dbAttached, clock, files, saved, cacheOp, writers, fetchOp,
                   colorVars, sanVars, mgrVars, fmtVars, inferVars, botVars>>

\* aiofiles.open answered
ReadOpen(r) ==
    /\ readers[r].pc = "open"
    /\ LET f == OpenFile(files, PathOf(readers[r].key))
       IN  readers' = [readers EXCEPT ![r] =
                         IF f = Raised THEN Finished(readers[r], Raised)
                         ELSE [readers[r] EXCEPT !.pc = "read",
                                                 !.handle = f]]
    /\ UNCHANGED <<cacheVars, writers, fetchOp, colorVars, sanVars, mgrVars, fmtVars,
                   inferVars, botVars>>

\* f.read() answered
ReadDone(r) ==
    /\ readers[r].pc = "read"
    /\ readers' = [readers EXCEPT ![r] =
                      Finished(readers[r], readers[r].handle)]
    /\ UNCHANGED <<cacheVars, writers, fetchOp, colorVars, sanVars, mgrVars, fmtVars,
                   inferVars, botVars>>

\* the thumbnail of the picture with digest image_hash of user_id: one
\* mebibyte for the first user, two for the other
ThumbnailOf(k) == IF k[1] = <<"1">> THEN <<"p">> ELSE <<"q", "q">>

\* save_thumbnail while no get_cached_thumbnail is in flight
QuietSave(k) ==
    /\ Quiet
    /\ SaveThumbnail(k, ThumbnailOf(k), "ok")

NextRace ==
    \/ Tick
    \/ CleanupCache
    \/ \E k \in CacheKeys : QuietSave(k)
    \/ \E r \in ReaderIds, k \in CacheKeys : ReadBegin(r, k)
    \/ \E r \in ReaderIds, f \in StoreOutcomes : ReadFound(r, f)
    \/ \E r \in ReaderIds, d \in StoreOutcomes : ReadDeleted(r, d)
    \/ \E r \in ReaderIds : ReadOpen(r)
    \/ \E r \in ReaderIds : ReadDone(r)

SpecRace == InitCache /\ [][NextRace]_vars

-----------------------------------------------------------------------------
(* save_thumbnail as a coroutine, next to the gets.  aiofiles runs open,    *)
(* write and close in a thread and the coroutine awaits each of them, so    *)
(* other coroutines run between the truncation that open(cache_path, 'wb')  *)
(* makes and the arrival of the bytes.  Two get_thumbnail_for_user calls    *)
(* for one user save the same key with the same thumbnail, which is why     *)
(* there are two writers.  A handle a get holds already is taken to give    *)
(* what the file held when it was opened.  No cleanup runs here and no     *)
(* hour passes, so nothing expires.                                         *)

\* aiofiles.open(cache_path, 'wb'): the file is created or cut to no bytes
Truncated(fs, cache_path, now) ==
    Put(fs, cache_path, [data |-> <<>>, mtime |-> now])

\* save_thumbnail up to the await of aiofiles.open
WriteBegin(w, k) ==
    /\ writers[w].pc \in {"idle", "done"}
    /\ writers' = [writers EXCEPT ![w] =
                      [NoWriter EXCEPT !.pc = "opening", !.key = k,
                                       !.thumbnail_data = ThumbnailOf(k)]]
    /\ UNCHANGED <<cacheVars, readers, fetchOp, colorVars, sanVars, mgrVars,
                   fmtVars, inferVars, botVars>>

\* aiofiles.open answered
WriteOpen(w) ==
    /\ writers[w].pc = "opening"
    /\ files' = Truncated(files, PathOf(writers[w].key), clock)
    /\ writers' = [writers EXCEPT ![w].pc = "write"]
    /\ UNCHANGED <<dbAttached, clock, records, saved, cacheOp, readers,
                   fetchOp, colorVars, sanVars, mgrVars, fmtVars, inferVars,
                   botVars>>

\* f.write(thumbnail_data) answered and the file was closed; without a
\* collection save_thumbnail returns True here
WriteData(w) ==
    /\ writers[w].pc = "write"
    /\ files' = Put(files, PathOf(writers[w].key),
                    [data |-> writers[w].thumbnail_data, mtime |-> clock])
    /\ writers' = [writers EXCEPT ![w].pc = IF dbAttached THEN "update"
                                            ELSE "done",
                                  ![w].ok = ~dbAttached]
    /\ UNCHANGED <<dbAttached, clock, records, saved, cacheOp, readers,
                   fetchOp, colorVars, sanVars, mgrVars, fmtVars, inferVars,
                   botVars>>

\* update_one answered or raised; except Exception makes the result False
WriteRecorded(w, update) ==
    /\ writers[w].pc = "update"
    /\ LET k == writers[w].key
       IN  records' = IF update = "ok"
                      THEN Put(records, k,
                               [cache_path |-> PathOf(k),
                                created_at |-> clock,
                                file_size |-> Len(writers[w].thumbnail_data)])
                      ELSE records
    /\ writers' = [writers EXCEPT ![w].pc = "done",
                                  ![w].ok = (update = "ok")]
    /\ UNCHANGED <<dbAttached, clock, files, saved, cacheOp, readers,
                   fetchOp, colorVars, sanVars, mgrVars, fmtVars, inferVars,
                   botVars>>

\* the get that runs next to the two saves
RacingReader == "r1"

NextWrite ==
    \/ \E w \in WriterIds, k \in CacheKeys : WriteBegin(w, k)
    \/ \E w \in WriterIds : WriteOpen(w)
    \/ \E w \in WriterIds : WriteData(w)
    \/ \E w \in WriterIds, u \in StoreOutcomes : WriteRecorded(w, u)
    \/ \E k \in CacheKeys : ReadBegin(RacingReader, k)
    \/ \E f \in StoreOutcomes : ReadFound(RacingReader, f)
    \/ ReadOpen(RacingReader)
    \/ ReadDone(RacingReader)

SpecWrite == InitCache /\ [][NextWrite]_vars

-----------------------------------------------------------------------------
(* The event handlers of main.py.  The client makes one task per gateway    *)
(* event, in the order the events arrive, and the event loop starts tasks   *)
(* in the order they were made; a task runs alone up to its next await.     *)
(* So the dispatch of an event and the handler's code up to its first await *)
(* are one step, and the steps after an await of different tasks come in    *)
(* any order.  The notification_preferences collection is written by other  *)
(* programs, at any moment.                                                 *)

MaxEvents == 3

\* member ids
BotUsers == {1, 2}

\* str(after.status)
PresenceStatuses == {<<"online">>, <<"idle">>}

\* dct.get(key)
DictGet(dct, key) == IF key \in DOMAIN dct THEN dct[key] ELSE None

\* find_one({"watched_users": str(user_id)}) gives a document
IsWatched(user_id) == Str(user_id) \in watched

InitBot ==
    /\ ColorIdle
    /\ SanIdle
    /\ MgrIdle
    /\ FmtIdle
    /\ InferIdle
    /\ CacheIdle
    /\ PicIdle
    /\ BotIdle

\* another program adds user_id to the watched_users of a document or takes
\* it out of all of them
PreferencesChange(user_id, on) ==
    /\ watched' = IF on THEN watched \cup {Str(user_id)}
                  ELSE watched \ {Str(user_id)}
    /\ watched' # watched
    /\ UNCHANGED <<presVars, voiceVars, colorVars, sanVars, mgrVars, fmtVars,
                   inferVars, cacheVars, picVars>>

\* a handler that left the cache as it was
RecordedStatus_NotRecorded(cache, user_id, new_status) == cache

\* presence_cache[user_id] = new_status
RecordedStatus(cache, user_id, new_status) == Put(cache, user_id, new_status)

\* on_presence_update up to the await of find_one, or to its end when the
\* status is the one the cache holds
OnPresenceUpdate(user_id, new_status) ==
    /\ Len(presenceTasks) < MaxEvents
    /\ LET last_status == DictGet(presence_cache, user_id)
           task == [user_id |-> user_id, new_status |-> new_status,
                    last_status |-> last_status, pc |-> "done",
                    attempted |-> FALSE]
       IN  IF last_status # new_status
           THEN /\ presence_cache' =
                       RecordedStatus(presence_cache, user_id, new_status)
                /\ presenceTasks' =
                       Append(presenceTasks, [task EXCEPT !.pc = "find"])
           ELSE /\ presenceTasks' = Append(presenceTasks, task)
                /\ UNCHANGED presence_cache
    /\ UNCHANGED <<watched, voiceVars, colorVars, sanVars, mgrVars, fmtVars,
                   inferVars, cacheVars, picVars>>

\* find_one answered or raised; with a document the handler calls
\* send_watched_user_notification, which is the notification attempt
PresenceFound(i, find) ==
    /\ i <= Len(presenceTasks)
    /\ presenceTasks[i].pc = "find"
    /\ presenceTasks' =
          [presenceTasks EXCEPT ![i] =
              IF find # "ok" THEN [@ EXCEPT !.pc = "raised"]
              ELSE IF IsWatched(@.user_id)
              THEN [@ EXCEPT !.pc = "send", !.attempted = TRUE]
              ELSE [@ EXCEPT !.pc = "done"]]
    /\ UNCHANGED <<watched, presence_cache, voiceVars, colorVars, sanVars,
                   mgrVars, fmtVars, inferVars, cacheVars, picVars>>

\* send_watched_user_notification returned; it catches what it raises
PresenceSent(i) ==
    /\ i <= Len(presenceTasks)
    /\ presenceTasks[i].pc = "send"
    /\ presenceTasks' = [presenceTasks EXCEPT ![i].pc = "done"]
    /\ UNCHANGED <<watched, presence_cache, voiceVars, colorVars, sanVars,
                   mgrVars, fmtVars, inferVars, cacheVars, picVars>>

NextPresence ==
    \/ \E u \in BotUsers, on \in BOOLEAN : PreferencesChange(u, on)
    \/ \E u \in BotUsers, s \in PresenceStatuses : OnPresenceUpdate(u, s)
    \/ \E i \in 1..MaxEvents, f \in StoreOutcomes : PresenceFound(i, f)
    \/ \E i \in 1..MaxEvents : PresenceSent(i)

SpecPresence == InitBot /\ [][NextPresence]_vars

-----------------------------------------------------------------------------
(* on_voice_state_update.  A channel id of NoId stands for no channel: the  *)
(* handler tests the ids by truthiness.  The awaits between which the       *)
(* handler neither reads the preferences nor touches a module dictionary    *)
(* are taken together, and so is what the handler does after its last call  *)
(* of update_channel_cache.                                                 *)

\* the voice channel the member is in
ChannelOf(user_id) ==
    IF user_id \in DOMAIN voiceOf THEN voiceOf[user_id] ELSE NoId

\* get_voice_state_signature, with the time of the event
get_voice_state_signature(user_id, channel_id, event_type) ==
    <<user_id, channel_id, event_type, clock>>

\* update_channel_cache(user_id, channel_id, action) on watched_channel_users
update_channel_cache(cache, user_id, channel_id, action) ==
    IF action = "leave" /\ channel_id # NoId
    THEN IF channel_id \in DOMAIN cache
         THEN IF cache[channel_id] \ {user_id} = {}
              THEN Without(cache, {channel_id})
              ELSE Put(cache, channel_id, cache[channel_id] \ {user_id})
         ELSE cache
    ELSE IF action = "join" /\ channel_id # NoId
    THEN Put(cache, channel_id,
             (IF channel_id \in DOMAIN cache THEN cache[channel_id] ELSE {})
                \cup {user_id})
    ELSE cache

\* which branch of the handler an event takes
EventKind(before, after) ==
    IF before = NoId /\ after # NoId THEN "join"
    ELSE IF before # NoId /\ after = NoId THEN "leave"
    ELSE IF before # NoId /\ after # NoId /\ before # after THEN "move"
    ELSE "same"

\* the event that takes the member from the channel it is in to
\* after_channel_id, or changes its mute flag when that is the same
\* channel, and the handler up to its first await
OnVoiceStateUpdate(user_id, after_channel_id) ==
    /\ Len(voiceTasks) < MaxEvents
    /\ LET before_channel_id == ChannelOf(user_id)
           kind == EventKind(before_channel_id, after_channel_id)
           voice_signature ==
               IF after_channel_id # NoId
               THEN get_voice_state_signature(user_id, after_channel_id,
                                              "join")
               ELSE get_voice_state_signature(user_id, before_channel_id,
                                              "leave")
           duplicate == /\ user_id \in DOMAIN voice_state_cache
                        /\ voice_state_cache[user_id] = voice_signature
           task == [user_id |-> user_id, before |-> before_channel_id,
                    after |-> after_channel_id, kind |-> kind,
                    pc |-> "done", duplicate |-> duplicate]
       IN  /\ before_channel_id # NoId \/ after_channel_id # NoId
           /\ voiceOf' = Put(voiceOf, user_id, after_channel_id)
           /\ voice_state_cache' =
                 IF duplicate THEN voice_state_cache
                 ELSE Put(voice_state_cache, user_id, voice_signature)
           /\ voiceTasks' =
                 Append(voiceTasks,
                        IF duplicate \/ kind = "same" THEN task
                        ELSE [task EXCEPT !.pc = "log"])
    /\ UNCHANGED <<watched, watched_channel_users, presVars, colorVars,
                   sanVars, mgrVars, fmtVars, inferVars, cacheVars, picVars>>

\* insert_one of log_voice_activity answered or raised; nothing catches it
VoiceLogged(i, insert) ==
    /\ i <= Len(voiceTasks)
    /\ voiceTasks[i].pc = "log"
    /\ voiceTasks' =
          [voiceTasks EXCEPT ![i].pc =
              IF insert # "ok" THEN "raised"
              ELSE IF voiceTasks[i].kind = "join" THEN "is_watched"
              ELSE "pref"]
    /\ UNCHANGED <<watched, voiceOf, voice_state_cache,
                   watched_channel_users, presVars, colorVars, sanVars,
                   mgrVars, fmtVars, inferVars, cacheVars, picVars>>

\* the find_one of the leave and the move branch answered or raised;
\* nothing catches it
VoicePrefFound(i, find) ==
    /\ i <= Len(voiceTasks)
    /\ voiceTasks[i].pc = "pref"
    /\ voiceTasks' =
          [voiceTasks EXCEPT ![i].pc =
              IF find # "ok" THEN "raised"
              ELSE IF IsWatched(voiceTasks[i].user_id) THEN "send"
              ELSE "is_watched"]
    /\ UNCHANGED <<watched, voiceOf, voice_state_cache,
                   watched_channel_users, presVars, colorVars, sanVars,
                   mgrVars, fmtVars, inferVars, cacheVars, picVars>>

\* is_user_watched answered; it gives False when find_one raised.  The
\* join branch sends its notification before it updates the dictionary,
\* the other two update it at once
VoiceWatchedAnswered(i, find) ==
    /\ i <= Len(voiceTasks)
    /\ voiceTasks[i].pc = "is_watched"
    /\ LET t == voiceTasks[i]
           user_is_watched == find = "ok" /\ IsWatched(t.user_id)
           left == update_channel_cache(watched_channel_users, t.user_id,
                                        t.before, "leave")
       IN  IF ~user_is_watched
           THEN /\ voiceTasks' = [voiceTasks EXCEPT ![i].pc = "done"]
                /\ UNCHANGED watched_channel_users
           ELSE IF t.kind = "join"
           THEN /\ voiceTasks' = [voiceTasks EXCEPT ![i].pc = "send"]
                /\ UNCHANGED watched_channel_users
           ELSE /\ voiceTasks' = [voiceTasks EXCEPT ![i].pc = "done"]
                /\ watched_channel_users' =
                      IF t.kind = "leave" THEN left
                      ELSE update_channel_cache(left, t.user_id, t.after,
                                                "join")
    /\ UNCHANGED <<watched, voiceOf, voice_state_cache, presVars, colorVars,
                   sanVars, mgrVars, fmtVars, inferVars, cacheVars, picVars>>

\* send_watched_user_notification returned
VoiceNotified(i) ==
    /\ i <= Len(voiceTasks)
    /\ voiceTasks[i].pc = "send"
    /\ LET t == voiceTasks[i]
       IN  IF t.kind = "join"
           THEN /\ voiceTasks' = [voiceTasks EXCEPT ![i].pc = "done"]
                /\ watched_channel_users' =
                      update_channel_cache(watched_channel_users, t.user_id,
                                           t.after, "join")
           ELSE /\ voiceTasks' = [voiceTasks EXCEPT ![i].pc = "is_watched"]
                /\ UNCHANGED watched_channel_users
    /\ UNCHANGED <<watched, voiceOf, voice_state_cache, presVars, colorVars,
                   sanVars, mgrVars, fmtVars, inferVars, cacheVars, picVars>>

\* the second of the clock changes
SecondPasses ==
    /\ clock < MaxTime
    /\ clock' = clock + 1
    /\ UNCHANGED <<dbAttached, files, records, saved, cacheOp, colorVars,
                   sanVars, mgrVars, fmtVars, inferVars, picVars, botVars>>

NextVoice ==
    \/ SecondPasses
    \/ \E u \in BotUsers, on \in BOOLEAN : PreferencesChange(u, on)
    \/ \E u \in BotUsers, c \in ChannelIds \cup {NoId} :
          OnVoiceStateUpdate(u, c)
    \/ \E i \in 1..MaxEvents, o \in StoreOutcomes : VoiceLogged(i, o)
    \/ \E i \in 1..MaxEvents, o \in StoreOutcomes : VoicePrefFound(i, o)
    \/ \E i \in 1..MaxEvents, o \in StoreOutcomes : VoiceWatchedAnswered(i, o)
    \/ \E i \in 1..MaxEvents : VoiceNotified(i)

SpecVoice == InitBot /\ [][NextVoice]_vars

-----------------------------------------------------------------------------
(* Properties of the colour policy *)

\* an override value with one leading "#" or "0x" removed, which is how the
\* documentation of ColorConfig describes the accepted prefixes
PrefixRemoved(v) ==
    IF Len(v) >= 1 /\ v[1] = "#" THEN Slice(v, 1, Len(v))
    ELSE IF Len(v) >= 2 /\ v[1] = "0" /\ LowerChar(v[2]) = "x"
         THEN Slice(v, 2, Len(v))
    ELSE v

\* 1 to 6 hexadecimal digits, optionally prefixed
ValidOverride(v) ==
    AllHex(PrefixRemoved(v)) /\ Len(PrefixRemoved(v)) <= 6

\* the override the last get_color call looked up
OverrideAsked ==
    /\ colorCall.op = "get_color"
    /\ colorCall.arg # None
    /\ colorCall.arg # <<>>
    /\ env.name = EnvVarName(colorCall.arg)

\* C6: with a valid override hex string set for a category (1 to 6 hex
\* digits, optional "#" or "0x" prefix, leading or trailing zeros included),
\* get_color(category) returns exactly the integer value of that string.
C6_ValidOverrideIsReturned ==
    (OverrideAsked /\ colorCall.arg \in ActionTypes /\ ValidOverride(env.value))
        => colorCall.result = HexValue(PrefixRemoved(env.value))

\* C7: whatever the override table holds, get_color for the default (or an
\* absent) category is in [0, 0xFFFFFF], and so is the colour of every card
\* after the renderer's re-validation.
C7_DefaultColourInRange ==
    /\ (colorCall.op = "get_color" /\ colorCall.arg \in {DEFAULT, None, <<>>})
          => validate_color(colorCall.result)
    /\ colorCall.op = "embed" => validate_color(colorCall.result)

\* C8: an override that does not parse as hexadecimal is ignored: get_color
\* returns the default-table colour of the category, or of the default
\* category when the category is not in the default table.
C8_MalformedOverrideFallsBack ==
    (OverrideAsked /\ ~ParseInt16(PrefixRemoved(env.value)).ok)
        => colorCall.result =
              IF colorCall.arg \in ActionTypes
              THEN DEFAULT_COLORS(colorCall.arg)
              ELSE DEFAULT_COLORS(DEFAULT)

-----------------------------------------------------------------------------
(* Properties of the sanitiser *)

\* C9: the sanitising pass is idempotent: sanitising its own output changes
\* nothing, for every input text.
C9_SanitizeIdempotent == sanOut2 # None => sanOut2 = sanOut

\* offset of the first tag (a "<" with a ">" after it) at or after p, or -1
NextTag(s, p) ==
    LET ts == {i \in p..(Len(s) - 1) : s[i + 1] = "<" /\ FirstClose(s, i) >= 0}
    IN  IF ts = {} THEN -1 ELSE CHOOSE i \in ts : \A j \in ts : i <= j

RECURSIVE VisibleText(_, _)
\* the text of s from offset p on with every tag (from a "<" to the next
\* ">") taken out
VisibleText(s, p) ==
    LET i == NextTag(s, p)
    IN  IF i < 0 THEN Slice(s, p, Len(s))
        ELSE Slice(s, p, i) \o VisibleText(s, FirstClose(s, i) + 1)

RECURSIVE TagTokens(_, _)
\* the tags of s from offset p on, in order
TagTokens(s, p) ==
    LET i == NextTag(s, p)
    IN  IF i < 0 THEN <<>>
        ELSE <<Slice(s, i, FirstClose(s, i) + 1)>>
                 \o TagTokens(s, FirstClose(s, i) + 1)

IsTag(piece) == piece[1] = "<"
IsClosingTag(piece) == IsTag(piece) /\ piece[2] = "/"
IsSelfClosingTag(piece) == IsTag(piece) /\ piece[Len(piece) - 1] = "/"
TagInner(piece) == StripChars(piece, {"<", ">", "/"})
TagName(piece) == Lower(FirstWord(TagInner(piece)))

\* a tag of the dialect of the transport: b, i, u, s, code, pre, a
IsDialectTag(piece) == TagName(piece) \in SUPPORTED_TAGS

RECURSIVE Nested(_, _)
\* the tags of ps open and close in stack order; a closing tag carries no
\* attribute
Nested(ps, stack) ==
    IF ps = <<>> THEN stack = <<>>
    ELSE LET h == Head(ps)
         IN  IF ~IsTag(h) \/ IsSelfClosingTag(h) THEN Nested(Tail(ps), stack)
             ELSE IF IsClosingTag(h)
                  THEN /\ FirstWord(TagInner(h)) = TagInner(h)
                       /\ stack # <<>>
                       /\ Head(stack) = TagName(h)
                       /\ Nested(Tail(ps), Tail(stack))
             ELSE Nested(Tail(ps), <<TagName(h)>> \o stack)

WellFormed(ps) == Nested(ps, <<>>)

\* C10: for a text with well-formed tag nesting the sanitiser drops no
\* content: the visible text is unchanged, and the tags that remain are
\* exactly the supported tags of the input, in order.
C10_SanitizePreservesText ==
    (sanOut # None /\ WellFormed(pieces))
        => /\ sanOut # Raised
           /\ VisibleText(sanOut, 0) = VisibleText(Flatten(pieces), 0)
           /\ TagTokens(sanOut, 0)
                 = SelectSeq(TagTokens(Flatten(pieces), 0), IsDialectTag)

\* a well-formed text with an unsupported pair around text has been sanitised
C10_Witness ==
    /\ sanOut # None
    /\ WellFormed(pieces)
    /\ \E i, j, k \in 1..Len(pieces) :
          /\ i < j /\ j < k
          /\ pieces[i] = P_open_x
          /\ pieces[j] = P_text
          /\ pieces[k] \in {P_close_x, P_close_X}
    /\ sanOut # Flatten(pieces)

-----------------------------------------------------------------------------
(* Properties of the fan-out *)

Recipients == Range(call.recips)

\* the transport events of channel n, in order
EventsOf(n) == SelectSeq(log, LAMBDA e : e.ch = n)

SendPaths == {"embed", "dm", "photo", "text"}

\* C1: send_notification_all never raises, and whatever one provider does
\* (returns false, is unregistered, raises) every channel of the mapping is
\* dispatched and has its boolean in the returned mapping.
C1_NeverRaisesAllDispatched ==
    /\ pc # "raised"
    /\ pc = "returned" => \A n \in Recipients : n \in DOMAIN results

\* C2: a provider's send_notification never lets an exception out: its
\* outcome is a boolean, and it is false when the last thing the transport
\* did for it was to fail (recipient not resolved, a chunk not sent).
C2_ProviderContainsFailures ==
    \A n \in DOMAIN provOutcome :
        /\ provOutcome[n] \in {"true", "false"}
        /\ LET evs == EventsOf(n)
           IN  (evs # <<>> /\ evs[Len(evs)].ev = "end" /\ ~evs[Len(evs)].ok)
                   => provOutcome[n] = "false"

\* C3: the returned mapping has exactly the channel names of the recipients
\* mapping as keys; a name without provider maps to false and reaches no
\* provider and no transport; a registered name maps to what its provider
\* returned.
C3_ResultKeysAndMissing ==
    pc = "returned" =>
        /\ DOMAIN results = Recipients
        /\ \A n \in Recipients :
              IF n \in DOMAIN providers
              THEN /\ n \in DOMAIN provOutcome
                   /\ results[n] = (provOutcome[n] = "true")
              ELSE /\ results[n] = FALSE
                   /\ n \notin DOMAIN provOutcome
                   /\ EventsOf(n) = <<>>

\* a call over an unregistered name followed by a registered one returned,
\* the registered one delivered
C3_Witness ==
    /\ pc = "returned"
    /\ \E i, j \in 1..Len(call.recips) :
          /\ i < j
          /\ call.recips[i] \notin DOMAIN providers
          /\ call.recips[j] \in DOMAIN providers
          /\ results[call.recips[j]] = TRUE

\* C4: within one channel the chunks go out one after the other in index
\* order: chunk i+1 is issued right after chunk i of the same path has
\* completed, and the next thing that happens after a send is issued is
\* the completion of that send, so no two sends overlap.
C4_ChunksSequential ==
    \A p \in 1..Len(log) :
        (log[p].ev = "start" /\ log[p].path \in SendPaths) =>
            /\ log[p].i > 1 =>
                  /\ p > 1
                  /\ log[p - 1] = [log[p] EXCEPT !.ev = "end", !.i = @ - 1]
            /\ p < Len(log) =>
                  /\ log[p + 1].ev = "end"
                  /\ log[p + 1].ch = log[p].ch
                  /\ log[p + 1].path = log[p].path
                  /\ log[p + 1].i = log[p].i

\* both providers have delivered a notification of several chunks, the
\* styled-text one as an image with caption and follow-up messages
C4_Witness ==
    /\ pc = "returned"
    /\ \E p \in 1..Len(log) :
          log[p].path = "dm" /\ log[p].i = 3 /\ log[p].ev = "end" /\ log[p].ok
    /\ \E p \in 1..Len(log) :
          log[p].path = "photo" /\ log[p].i = 2 /\ log[p].ev = "end" /\ log[p].ok

\* C5: while the styled-text channel waits for the profile image, no other
\* channel of the same call is kept from starting: every other channel has
\* been dispatched already.
C5_ImagePipelineDoesNotBlock ==
    pc = "tg_thumb" => \A j \in 1..Len(call.recips) : j <= idx

-----------------------------------------------------------------------------
(* Properties of the styled-text formatter *)

ENT_amp == <<"&", "a", "m", "p", ";">>
ENT_lt == <<"&", "l", "t", ";">>
ENT_gt == <<"&", "g", "t", ";">>

IsPrefix(k, s) == Len(k) <= Len(s) /\ SubSeq(s, 1, Len(k)) = k

IsSuffix(k, s) ==
    Len(k) <= Len(s) /\ SubSeq(s, Len(s) - Len(k) + 1, Len(s)) = k

RECURSIVE Unescaped(_)
\* the text a reader of the HTML dialect sees for an escaped text: each of
\* the three entities stands for its character
Unescaped(s) ==
    IF s = <<>> THEN <<>>
    ELSE IF IsPrefix(ENT_amp, s)
         THEN <<"&">> \o Unescaped(SubSeq(s, 6, Len(s)))
    ELSE IF IsPrefix(ENT_lt, s)
         THEN <<"<">> \o Unescaped(SubSeq(s, 5, Len(s)))
    ELSE IF IsPrefix(ENT_gt, s)
         THEN <<">">> \o Unescaped(SubSeq(s, 5, Len(s)))
    ELSE <<Head(s)>> \o Unescaped(Tail(s))

\* every "&" of s begins one of the three entities
AmpersandsAreEntities(s) ==
    \A i \in 1..Len(s) :
        s[i] = "&" =>
            \E e \in {ENT_amp, ENT_lt, ENT_gt} :
                IsPrefix(e, SubSeq(s, i, Len(s)))

\* C11: no part of a plain message is read as markup.  The escaped message
\* holds no "<" and no ">", each "&" in it begins an entity, and it stands
\* for the message character by character; the text that is sent ends with
\* the escaped message unaltered, and with no profile it is the escaped
\* message itself, so it holds no tag.
C11_MessageIsNeverMarkup ==
    fmtOut.done =>
        /\ \A i \in 1..Len(fmtOut.escaped) :
               fmtOut.escaped[i] \notin {"<", ">"}
        /\ AmpersandsAreEntities(fmtOut.escaped)
        /\ Unescaped(fmtOut.escaped) = fmtIn.body
        /\ fmtOut.text # Raised => IsSuffix(fmtOut.escaped, fmtOut.text)
        /\ fmtIn.ctx = NoCtx => fmtOut.text = fmtOut.escaped

\* a message made of the three markup characters was formatted with no
\* profile
C11_Witness ==
    /\ fmtOut.done
    /\ fmtIn.ctx = NoCtx
    /\ fmtIn.body = <<"<", "&", ">">>
    /\ fmtOut.text = ENT_lt \o ENT_amp \o ENT_gt

-----------------------------------------------------------------------------
(* Properties of the classifier *)

\* the words of a text: its maximal runs of characters other than the space
WordsOf(s) ==
    {SubSeq(s, a, b) : <<a, b>> \in
        {<<a, b>> \in (1..Len(s)) \X (1..Len(s)) :
            /\ a <= b
            /\ \A i \in a..b : s[i] # " "
            /\ (a = 1 \/ s[a - 1] = " ")
            /\ (b = Len(s) \/ s[b + 1] = " ")}}

WORD_channel == <<"c", "h", "a", "n", "n", "e", "l">>

\* the three voice rules that need the word "channel", with their keywords
VoiceRules ==
    {[cat |-> VOICE_JOIN,
      words |-> {<<"j", "o", "i", "n", "e", "d">>,
                 <<"e", "n", "t", "e", "r", "i", "n", "g">>,
                 <<"c", "o", "n", "n", "e", "c", "t", "i", "n", "g">>}],
     [cat |-> VOICE_LEAVE,
      words |-> {<<"l", "e", "f", "t">>,
                 <<"l", "e", "a", "v", "i", "n", "g">>,
                 <<"d", "i", "s", "c", "o", "n", "n", "e", "c", "t", "i", "n", "g">>}],
     [cat |-> VOICE_MOVE,
      words |-> {<<"m", "o", "v", "e", "d">>,
                 <<"s", "w", "i", "t", "c", "h", "e", "d">>}]}

\* the voice rules one of whose keywords is a word of the message
VoiceRulesIn(message) ==
    {r \in VoiceRules : WordsOf(Lower(message)) \cap r.words # {}}

\* C12: a message that holds a voice keyword and the word "channel", in any
\* letter case, is given a voice category and never a status or membership
\* category; when the keywords in it belong to one voice rule it is given
\* the category of that rule.
C12_VoiceKeywordWithChannel ==
    (inferOut # None /\ WORD_channel \in WordsOf(Lower(inferMsg))) =>
        /\ VoiceRulesIn(inferMsg) # {} =>
               inferOut \in {VOICE_JOIN, VOICE_LEAVE, VOICE_MOVE}
        /\ \A r \in VoiceRules :
               VoiceRulesIn(inferMsg) = {r} => inferOut = r.cat

\* one of the keywords occurs in the text
Occurs(m, kws) == \E k \in kws : Contains(m, k)

\* the rule of a category matches the lower-cased message m
RuleMatches(cat, m) ==
    CASE cat = VOICE_JOIN -> Occurs(m, JoinWords) /\ Contains(m, KW_channel)
      [] cat = VOICE_LEAVE -> Occurs(m, LeaveWords) /\ Contains(m, KW_channel)
      [] cat = VOICE_MOVE -> Occurs(m, MoveWords) /\ Contains(m, KW_channel)
      [] cat = VOICE_MUTE -> Occurs(m, MuteWords)
      [] cat = VOICE_UNMUTE -> Occurs(m, UnmuteWords)
      [] cat = VOICE_DEAFEN -> Occurs(m, DeafenWords)
      [] cat = VOICE_UNDEAFEN -> Occurs(m, UndeafenWords)
      [] cat = STATUS_ONLINE -> Occurs(m, OnlineWords)
      [] cat = STATUS_OFFLINE -> Occurs(m, OfflineWords)
      [] cat = STATUS_IDLE -> Occurs(m, IdleWords)
      [] cat = STATUS_DND -> Occurs(m, DndWords)
      [] cat = MEMBER_JOIN -> Occurs(m, MemberJoinWords)
      [] cat = MEMBER_LEAVE -> Occurs(m, MemberLeaveWords)
      [] cat = WARNING -> Occurs(m, WarningWords)
      [] cat = ERROR -> Occurs(m, ErrorWords)
      [] cat = ADMIN -> Occurs(m, AdminWords)
      [] OTHER -> FALSE

\* the place of a category's group in the fixed order voice, status,
\* membership, warning, error, admin
GroupRank(cat) ==
    IF cat \in {VOICE_JOIN, VOICE_LEAVE, VOICE_MOVE, VOICE_MUTE, VOICE_UNMUTE,
                VOICE_DEAFEN, VOICE_UNDEAFEN} THEN 1
    ELSE IF cat \in {STATUS_ONLINE, STATUS_OFFLINE, STATUS_IDLE, STATUS_DND}
         THEN 2
    ELSE IF cat \in {MEMBER_JOIN, MEMBER_LEAVE} THEN 3
    ELSE IF cat = WARNING THEN 4
    ELSE IF cat = ERROR THEN 5
    ELSE IF cat = ADMIN THEN 6
    ELSE 7

MatchedRules(message) ==
    {cat \in ActionTypes : RuleMatches(cat, Lower(message))}

\* C13: the classifier is total and decides by first match in the fixed
\* order of the groups: the result is a category; it is default exactly
\* when no rule matches the lower-cased message; otherwise its rule matches
\* and no rule of an earlier group does; and the message written in lower
\* case or in upper case is given the same category.
C13_FirstMatchClassifier ==
    inferOut # None =>
        /\ inferOut \in ActionTypes
        /\ \A matched \in {MatchedRules(inferMsg)} :
               /\ matched = {} <=> inferOut = DEFAULT
               /\ matched # {} =>
                      /\ inferOut \in matched
                      /\ \A cat \in matched :
                             GroupRank(inferOut) <= GroupRank(cat)
        /\ infer_action_type(Lower(inferMsg)) = inferOut
        /\ infer_action_type(Upper(inferMsg)) = inferOut

\* an upper-case message that matches a status rule and an admin rule was
\* given the status category
C13_Witness ==
    /\ inferOut = STATUS_ONLINE
    /\ inferMsg = Upper(inferMsg)
    /\ ADMIN \in MatchedRules(inferMsg)

\* the text "left server" or "member left" occurs in the message
SaysMemberLeft(message) ==
    Occurs(Lower(message), {<<"l", "e", "f", "t", " ", "s", "e", "r", "v", "e", "r">>,
                            <<"m", "e", "m", "b", "e", "r", " ", "l", "e", "f", "t">>})

SaysChannel(message) == Contains(Lower(message), WORD_channel)

\* a rule tested before the member-leave rule that does not need the word
\* "channel" matches: mute, unmute, deafen, undeafen or member-join
EarlierRuleMatches(message) ==
    \E cat \in {VOICE_MUTE, VOICE_UNMUTE, VOICE_DEAFEN, VOICE_UNDEAFEN,
                 MEMBER_JOIN} : RuleMatches(cat, Lower(message))

StatusRuleMatches(message) ==
    \E cat \in {STATUS_ONLINE, STATUS_OFFLINE, STATUS_IDLE, STATUS_DND} :
        RuleMatches(cat, Lower(message))

\* C14 as stated: voice-join, voice-leave and voice-move are returned only
\* for messages that hold "channel", and every message that says "left
\* server" or "member left", holds no "channel" and no status keyword, is
\* classified member-leave.
C14_AsStated ==
    inferOut # None =>
        /\ inferOut \in {VOICE_JOIN, VOICE_LEAVE, VOICE_MOVE} =>
               SaysChannel(inferMsg)
        /\ (SaysMemberLeft(inferMsg) /\ ~SaysChannel(inferMsg)
               /\ ~StatusRuleMatches(inferMsg)) => inferOut = MEMBER_LEAVE

\* C14, amended: voice-join, voice-leave and voice-move are returned only
\* for messages that hold "channel"; a message that says "left server" or
\* "member left", holds no "channel", no status keyword and no keyword of
\* the mute, unmute, deafen, undeafen or member-join rule, is classified
\* member-leave.
C14_ChannelRequired ==
    inferOut # None =>
        /\ inferOut \in {VOICE_JOIN, VOICE_LEAVE, VOICE_MOVE} =>
               SaysChannel(inferMsg)
        /\ (SaysMemberLeft(inferMsg) /\ ~SaysChannel(inferMsg)
               /\ ~StatusRuleMatches(inferMsg)
               /\ ~EarlierRuleMatches(inferMsg)) => inferOut = MEMBER_LEAVE

\* a message with the leave keyword "left" and without "channel" was
\* classified member-leave
C14_Witness ==
    /\ inferOut = MEMBER_LEAVE
    /\ ~SaysChannel(inferMsg)
    /\ Contains(Lower(inferMsg), <<"l", "e", "f", "t">>)


-----------------------------------------------------------------------------
(* Properties of the thumbnail cache *)

\* the entry of key k is on disk and its TTL window has elapsed: by the
\* creation time of the record when a store is attached and has the record,
\* by the modification time of the file otherwise
ExpiredEntry(k) ==
    /\ PathOf(k) \in DOMAIN files
    /\ IF dbAttached /\ k \in DOMAIN records
       THEN clock - records[k].created_at > CACHE_TTL_HOURS
       ELSE clock - files[PathOf(k)].mtime > CACHE_TTL_HOURS

\* C15: a get_cached_thumbnail of a key whose TTL window has elapsed, in
\* which no call of the store raises, returns None and leaves no cache file
\* of the key, with and without a store, also when the file has no record
C15_ExpiredGetIsAbsent ==
    [][\A k \in CacheKeys, find \in StoreOutcomes, delete \in StoreOutcomes :
          (ExpiredEntry(k) /\ ~cacheOp'.fault
           /\ GetCachedThumbnail(k, find, delete))
          => (cacheOp'.data = None /\ PathOf(k) \notin DOMAIN files')]_vars


\* C16: a get_cached_thumbnail in which no call of the store raises, made
\* within the TTL of the last save_thumbnail of its key that returned True
\* and with no cleanup_cache and no other save of the key in between,
\* returns the bytes of that save, whatever was saved under other keys
C16_RoundTrip ==
    [][\A k \in CacheKeys, find \in StoreOutcomes, delete \in StoreOutcomes :
          (/\ k \in DOMAIN saved
           /\ clock - saved[k].at <= CACHE_TTL_HOURS
           /\ ~cacheOp'.fault
           /\ GetCachedThumbnail(k, find, delete))
          => cacheOp'.data = saved[k].data]_vars

\* a get at the last hour of the TTL returned the bytes saved under its key
\* although other bytes were saved later under another key
C16_Witness ==
    /\ cacheOp.op = "get"
    /\ ~cacheOp.fault
    /\ cacheOp.key \in DOMAIN saved
    /\ clock - saved[cacheOp.key].at = CACHE_TTL_HOURS
    /\ cacheOp.data = saved[cacheOp.key].data
    /\ \E j \in DOMAIN saved :
          /\ j # cacheOp.key
          /\ saved[j].at > saved[cacheOp.key].at
          /\ saved[j].data # cacheOp.data


\* C17: with a store attached, whatever saves, gets and cleanups were made
\* and whichever of their store calls raised, every cache file on disk has
\* a record of its key
C17_EveryFileHasRecord ==
    dbAttached =>
        \A k \in CacheKeys :
            PathOf(k) \in DOMAIN files => k \in DOMAIN records


\* C18: with a store attached, after a cleanup_cache in which no store call
\* raised no record refers to a missing file, whether or not the cleanup
\* removed a file itself, and the cleanup creates neither files nor records
C18_CleanupReconciles ==
    [][(cacheOp'.op = "cleanup" /\ dbAttached /\ ~cacheOp'.fault
        /\ CleanupCache)
       => (/\ OrphanedMetadata(files', records') = {}
           /\ DOMAIN files' \subseteq DOMAIN files
           /\ DOMAIN records' \subseteq DOMAIN records)]_vars


\* the files whose age by modification time is greater than the TTL
ExpiredFiles ==
    {f \in DOMAIN files : clock - files[f].mtime > CACHE_TTL_HOURS}

\* the files a cleanup step removed although they were not expired
Evicted == (DOMAIN files \ ExpiredFiles) \ DOMAIN files'

\* C19: the expiry phase of cleanup_cache removes exactly the files whose
\* age is greater than the TTL: none of them is left, expired_removed is
\* their number, every other removed file is counted by the size phase, and
\* when the size phase removed nothing every file of age at most TTL is kept
C19_ExpiryPhase ==
    [][(cacheOp'.op = "cleanup" /\ CleanupCache)
       => (/\ cacheOp'.stats.expired_removed = Cardinality(ExpiredFiles)
           /\ DOMAIN files' \cap ExpiredFiles = {}
           /\ DOMAIN files' \subseteq DOMAIN files
           /\ \A f \in DOMAIN files' : files'[f] = files[f]
           /\ Cardinality(DOMAIN files \ DOMAIN files')
                  = cacheOp'.stats.expired_removed
                    + cacheOp'.stats.size_limit_removed
           /\ cacheOp'.stats.size_limit_removed = 0
                  => DOMAIN files' = DOMAIN files \ ExpiredFiles)]_vars

\* a cleanup removed one expired file and kept a file of age TTL - 1
C19_Witness ==
    /\ cacheOp.op = "cleanup"
    /\ cacheOp.stats.expired_removed = 1
    /\ cacheOp.stats.size_limit_removed = 0
    /\ \E f \in DOMAIN files : clock - files[f].mtime = CACHE_TTL_HOURS - 1

\* C20: after cleanup_cache the files left are together not larger than the
\* ceiling; size_limit_removed is the number of files removed without being
\* expired; none of them is newer than a file that is left; none is removed
\* when the files left by the expiry phase were within the ceiling; and the
\* eviction stopped as soon as the ceiling was met
C20_SizePhase ==
    [][(cacheOp'.op = "cleanup" /\ CleanupCache)
       => (/\ TotalSize(files') <= CACHE_MAX_SIZE_MB
           /\ cacheOp'.stats.size_limit_removed = Cardinality(Evicted)
           /\ \A e \in Evicted : \A f \in DOMAIN files' :
                  files[e].mtime <= files[f].mtime
           /\ TotalSize(Without(files, ExpiredFiles)) <= CACHE_MAX_SIZE_MB
                  => Evicted = {}
           /\ Evicted # {}
                  => \E e \in Evicted :
                        TotalSize(files') + Len(files[e].data)
                            > CACHE_MAX_SIZE_MB)]_vars

\* a cleanup evicted one of two unexpired files and kept one saved after
\* the first hour
C20_Witness ==
    /\ cacheOp.op = "cleanup"
    /\ cacheOp.stats.expired_removed = 0
    /\ cacheOp.stats.size_limit_removed = 1
    /\ \E f \in DOMAIN files : files[f].mtime > 0


\* C21: a cleanup_cache that follows a cleanup_cache of the same hour, with
\* no call of the cache in between, reports expired_removed = 0 and
\* size_limit_removed = 0 and changes neither the cache files nor the
\* records
C21_CleanupIdempotent ==
    [][(cacheOp.op = "cleanup" /\ cacheOp.at = clock /\ CleanupCache)
       => (/\ cacheOp'.stats.expired_removed = 0
           /\ cacheOp'.stats.size_limit_removed = 0
           /\ files' = files
           /\ records' = records)]_vars

\* a cleanup ran right after a cleanup of the same hour, on a cache that
\* holds a file and, with the store attached, a record without a file
C21_Witness ==
    /\ cacheOp.op = "cleanup"
    /\ cacheOp.repeated
    /\ files # <<>>
    /\ dbAttached
    /\ OrphanedMetadata(files, records) # {}


\* C22: a get_cached_thumbnail that ran interleaved with cleanup_cache and
\* with other gets never ends with an exception and returns None or the
\* whole content the file of its key had when the get began
C22_ReadsNeverCorrupt ==
    \A r \in ReaderIds :
        readers[r].pc = "done"
        => /\ readers[r].result # Raised
           /\ \/ readers[r].result = None
              \/ /\ readers[r].expect # None
                 /\ readers[r].result = readers[r].expect
                 /\ readers[r].result = ThumbnailOf(readers[r].key)

\* a get missed a file that was there when it began and that no TTL had
\* expired: a cleanup evicted it for size before the get opened it
C22_Witness ==
    /\ clock = 0
    /\ cacheOp.op = "cleanup"
    /\ cacheOp.stats.size_limit_removed > 0
    /\ \E r \in ReaderIds :
          /\ readers[r].pc = "done"
          /\ readers[r].expect # None
          /\ readers[r].result = None


-----------------------------------------------------------------------------
(* Properties of get_thumbnail_for_user *)

\* the step is a call of get_thumbnail_for_user: no other step changes
\* fetchOp
FetchStep == fetchOp' # fetchOp

\* the call never raises, yields None when the API or the download failed,
\* when there is no picture, when the picture does not decode and when
\* create_thumbnail raised, and does not touch the cache for a picture
\* that does not decode
FetchDegrades ==
    /\ fetchOp'.result # Raised
    /\ (\/ fetchOp'.api # "ok"
        \/ ~validate_image_data(fetchOp'.image)
        \/ fetchOp'.derive_failed)
          => fetchOp'.result = None
    /\ (fetchOp'.api = "ok" /\ ~validate_image_data(fetchOp'.image))
          => (/\ ~fetchOp'.read
              /\ fetchOp'.puts = 0
              /\ files' = files
              /\ records' = records)

\* C23 as stated: get_thumbnail_for_user never raises; every failure,
\* that of caching the thumbnail included, yields None; a picture that does
\* not decode leaves the cache unread and unchanged
C23_AsStated ==
    [][FetchStep
       => /\ FetchDegrades
          /\ (fetchOp'.puts = 1 /\ ~fetchOp'.stored)
                => fetchOp'.result = None]_vars

\* C23, amended: get_thumbnail_for_user never raises; an API or download
\* failure, no picture, a picture that does not decode and a failure of
\* create_thumbnail yield None; a picture that does not decode leaves the
\* cache unread and unchanged; when save_thumbnail fails the thumbnail just
\* derived is returned all the same
C23_FetchNeverRaises ==
    [][FetchStep
       => /\ FetchDegrades
          /\ (fetchOp'.puts = 1 /\ ~fetchOp'.stored)
                => fetchOp'.result = create_thumbnail(fetchOp'.image)]_vars

\* a call in which save_thumbnail failed returned the thumbnail
C23_Witness ==
    /\ fetchOp.op = "fetch"
    /\ fetchOp.puts = 1
    /\ ~fetchOp.stored
    /\ fetchOp.result = create_thumbnail(fetchOp.image)


\* the key and the file of the call that the step made
FetchKey == <<fetchOp'.user_id, calculate_image_hash(fetchOp'.image)>>

\* the call found the thumbnail in the cache
FetchHit ==
    fetchOp'.read /\ fetchOp'.puts = 0 /\ fetchOp'.result # None

\* C24: get_thumbnail_for_user touches no file and no record but those of
\* the key (user_id, digest of the picture fetched); on a hit it returns
\* the content of that file and writes nothing; on a miss it saves the
\* thumbnail it derived under that key and returns it; what it returns is
\* always the thumbnail of the picture fetched; and a call that follows,
\* within the TTL, a call for the same picture whose save succeeded, and in
\* which find_one does not raise, is a hit that returns the same bytes
C24_CacheKeyedByContent ==
    [][(FetchStep /\ fetchOp'.read)
       => /\ \A p \in (DOMAIN files \cup DOMAIN files') \ {PathOf(FetchKey)} :
                p \in DOMAIN files /\ p \in DOMAIN files'
                /\ files'[p] = files[p]
          /\ \A k \in (DOMAIN records \cup DOMAIN records') \ {FetchKey} :
                k \in DOMAIN records /\ k \in DOMAIN records'
                /\ records'[k] = records[k]
          /\ FetchHit
                => /\ PathOf(FetchKey) \in DOMAIN files
                   /\ fetchOp'.result = files[PathOf(FetchKey)].data
                   /\ files' = files
                   /\ records' = records
          /\ fetchOp'.puts = 1
                => /\ fetchOp'.result = create_thumbnail(fetchOp'.image)
                   /\ PathOf(FetchKey) \in DOMAIN files'
                   /\ files'[PathOf(FetchKey)].data = fetchOp'.result
          /\ fetchOp'.result # None
                => fetchOp'.result = create_thumbnail(fetchOp'.image)
          /\ (/\ fetchOp.puts = 1
              /\ fetchOp.stored
              /\ fetchOp.user_id = fetchOp'.user_id
              /\ fetchOp.image = fetchOp'.image
              /\ clock - fetchOp.at <= CACHE_TTL_HOURS
              /\ ~fetchOp'.get_fault)
                => (FetchHit /\ fetchOp'.result = fetchOp.result)]_vars

\* a call at the last hour of the TTL was a hit, while the thumbnail of
\* another picture of the same user is in the cache too
C24_Witness ==
    /\ fetchOp.op = "fetch"
    /\ fetchOp.read
    /\ fetchOp.puts = 0
    /\ fetchOp.result = create_thumbnail(fetchOp.image)
    /\ \E k \in DOMAIN saved :
          /\ k = <<fetchOp.user_id, calculate_image_hash(fetchOp.image)>>
          /\ clock - saved[k].at = CACHE_TTL_HOURS
    /\ \E j \in DOMAIN saved :
          /\ j[1] = fetchOp.user_id
          /\ j[2] # calculate_image_hash(fetchOp.image)
          /\ PathOf(j) \in DOMAIN files


-----------------------------------------------------------------------------
(* Properties of the fallback of the styled-text provider *)

\* the plain sends of channel n, in order
TextEventsOf(n) == SelectSeq(EventsOf(n), LAMBDA e : e.path = "text")

\* the image path of channel n failed: no thumbnail came back, or a send of
\* the image path raised
ImagePathFailed(n) ==
    \E p \in 1..Len(log) :
        /\ log[p].ch = n
        /\ log[p].ev = "end"
        /\ log[p].path \in {"get_thumbnail", "photo"}
        /\ ~log[p].ok

\* the plain sends of channel n are the chunks 1, 2, ... of a notification
\* of count chunks, each issued and completed before the next, none issued
\* after one that failed
PlainSendsInOrder(n, count) ==
    LET t == TextEventsOf(n)
    IN  /\ t # <<>>
        /\ Len(t) % 2 = 0
        /\ Len(t) <= 2 * count
        /\ \A j \in 1..Len(t) :
              /\ t[j].i = (j + 1) \div 2
              /\ t[j].ev = IF j % 2 = 1 THEN "start" ELSE "end"
        /\ \A j \in 1..(Len(t) - 1) : t[j].ok

AllPlainSendsSucceeded(n, count) ==
    LET t == TextEventsOf(n)
    IN  Len(t) = 2 * count /\ \A j \in 1..Len(t) : t[j].ok

\* C25: when the image path of the styled-text provider has failed, the
\* provider has sent the chunks of the text-formatted notification as plain
\* sends in order, and its result is true exactly when they all succeeded.
C25_ImageFailureFallsBack ==
    \A n \in DOMAIN provOutcome :
        ImagePathFailed(n) =>
            LET formatted == format_for_telegram(call.message, call.ctx, TRUE)
            IN  /\ ~formatted.raised
                /\ PlainSendsInOrder(n, Len(formatted.chunks))
                /\ provOutcome[n] = "true"
                      <=> AllPlainSendsSucceeded(n, Len(formatted.chunks))


-----------------------------------------------------------------------------
(* Properties of the pagination of both providers *)

\* chunks, given as offsets into a text of total characters, are slices of
\* at most limit characters that follow one another without gap or overlap
\* from the first character to the last: put together in order they are
\* the text
SlicesJoin(chunks, total, limit) ==
    /\ chunks # <<>>
    /\ chunks[1].lo = 0
    /\ chunks[Len(chunks)].hi = total
    /\ \A j \in 1..Len(chunks) :
          /\ chunks[j].lo <= chunks[j].hi
          /\ chunks[j].hi - chunks[j].lo <= limit
    /\ \A j \in 1..(Len(chunks) - 1) : chunks[j + 1].lo = chunks[j].hi

\* the same, and no chunk is empty
SlicesCover(chunks, total, limit) ==
    /\ SlicesJoin(chunks, total, limit)
    /\ \A j \in 1..Len(chunks) : chunks[j].lo < chunks[j].hi

\* C26: a message of at most 4000 characters is formatted as one card and
\* no chunks, and is sent as one card; a longer one (4001 characters
\* included) as no card but non-empty chunks of at most 2000 characters
\* that are, in order, the slices of the raw message (which carries no
\* profile or link field), and is sent as that many plain messages.
C26_CardOrChunks ==
    pc = "dc_send" =>
        LET formatted == format_for_discord(call.message)
            total == MsgLen(call.message)
        IN  /\ total <= 4000 =>
                  /\ formatted.embed
                  /\ formatted.chunks = <<>>
                  /\ prov.path = "embed"
                  /\ prov.chunks = 1
            /\ total > 4000 =>
                  /\ ~formatted.embed
                  /\ SlicesCover(formatted.chunks, total, 2000)
                  /\ prov.path = "dm"
                  /\ prov.chunks = Len(formatted.chunks)

\* the third and last chunk, of one character, of a message of 4001
\* characters is being sent
C26_Witness ==
    /\ pc = "dc_send"
    /\ MsgLen(call.message) = 4001
    /\ prov.path = "dm"
    /\ prov.k = 3
    /\ format_for_discord(call.message).chunks[3] = [lo |-> 4000, hi |-> 4001]


\* what _format_for_telegram returned is a pagination of the sanitised
\* composed text of the call: a non-empty list of slices of at most 4000
\* characters that are, in order, that text, and one slice when the text
\* has at most 4000 characters
TelegramPaginated(include_profile_picture) ==
    LET formatted == format_for_telegram(call.message, call.ctx,
                                         include_profile_picture)
        text == sanitized_message(call.message.body, call.ctx,
                                  include_profile_picture)
    IN  /\ ~formatted.raised
        /\ SlicesJoin(formatted.chunks, Len(text) + call.message.fill, 4000)
        /\ Len(text) + call.message.fill <= 4000 => Len(formatted.chunks) = 1
        /\ prov.chunks = Len(formatted.chunks)

\* C27: _format_for_telegram returns, to the caption path and to the text
\* path of send_notification, a non-empty ordered list of chunks of at most
\* 4000 characters that are, in order, the sanitised composed text, and one
\* chunk when that text has at most 4000 characters; a send_notification
\* that ended by an exception did not end by one of _format_for_telegram.
C27_TelegramPagination ==
    /\ pc = "tg_photo" => TelegramPaginated(FALSE)
    /\ pc = "tg_text" => TelegramPaginated(TRUE)
    /\ pc = "raised"
          => ~format_for_telegram(call.message, call.ctx, TRUE).raised


-----------------------------------------------------------------------------
(* Properties of the registry *)

\* nothing has reached the transport of a provider whose last setup failed,
\* and a send through it has returned false
FailedProviderIsSilent ==
    \A n \in DOMAIN providers :
        providers[n].setup = "failed" =>
            /\ EventsOf(n) = <<>>
            /\ n \in DOMAIN provOutcome => provOutcome[n] = "false"

\* C28: initialize_providers sets up every registered provider and does not
\* raise, the rich-card provider's setup succeeds whatever the styled-text
\* provider's does; and from then on a send through a provider whose setup
\* failed returns false and reaches no transport.
C28_SetupFailuresContained ==
    [][/\ (\E o \in SetupOutcomes : InitializeProviders(o))
             => /\ pc' = "idle"
                /\ \A n \in DOMAIN providers' :
                      /\ providers'[n].setup \in {"ok", "failed"}
                      /\ providers'[n].kind = "discord"
                            => providers'[n].setup = "ok"
       /\ FailedProviderIsSilent']_vars


\* C29: at every registry the program reaches, registering a provider
\* under a name yields a registry that holds that provider under the name,
\* one provider for each name, and what the other names had; registering
\* the same provider under the same name once more changes nothing; and no
\* send has reached the transport of a styled-text provider registered
\* afresh, whatever the provider it replaced had been set up with.
C29_RegisterReplaces ==
    /\ \A name \in RegisteredNames : \A provider \in ProvidersFor(name) :
          LET once == register_provider(providers, name, provider)
              twice == register_provider(once, name, provider)
          IN  /\ DOMAIN once = DOMAIN providers \cup {name}
              /\ once[name] = provider
              /\ \A m \in DOMAIN providers \ {name} : once[m] = providers[m]
              /\ twice = once
    /\ \A n \in DOMAIN providers :
          (providers[n].kind = "telegram" /\ providers[n].setup = "new")
              => EventsOf(n) = <<>>

\* with the token set, a call over both channels has returned after the
\* rich-card provider was set up and the styled-text one registered afresh:
\* the first delivered, the second returned false
C29_Witness ==
    /\ pc = "returned"
    /\ tokenSet
    /\ DOMAIN providers = RegisteredNames
    /\ providers["discord"].setup = "ok"
    /\ providers["telegram"].setup = "new"
    /\ DOMAIN results = RegisteredNames
    /\ results["discord"]
    /\ ~results["telegram"]


-----------------------------------------------------------------------------
(* Properties of the dispatch order *)

\* channel n, dispatched on its own, calls its transport: the rich-card
\* provider when the recipient is a number, the styled-text provider when
\* it has a bot and either asks for the thumbnail or gets its text
\* formatted
ReachesTransport(n) ==
    /\ n \in DOMAIN providers
    /\ providers[n].kind = "discord" => IsDecimal(call.rid)
    /\ providers[n].kind = "telegram" =>
          /\ providers[n].bot
          /\ \/ /\ providers[n].ppm
                /\ TelegramThumbnailConfig_is_enabled
                /\ HasCtx(call.ctx)
                /\ Truthy(call.ctx.user_id)
             \/ ~format_for_telegram(call.message, call.ctx, TRUE).raised

\* C30: what a channel's transport observes, and the returned mapping, do
\* not depend on where the channel stands in the dispatch order: when
\* send_notification_all has ended, no channel that calls its transport
\* when it stands first has been left without dispatch because it stood
\* after another one.
C30_FanOutCommutes ==
    pc \in {"returned", "raised"} =>
        \A j \in 1..Len(call.recips) :
            j > idx => ~ReachesTransport(call.recips[j])


-----------------------------------------------------------------------------
(* Properties of the voice-channel field of the rich card *)

\* the decimal numerals of the ids of the model
Numeral(id) ==
    CASE id = 3 -> <<"3">>
      [] id = 7 -> <<"7">>
      [] id = 12 -> <<"1", "2">>
      [] id = 40 -> <<"4", "0">>

\* C31: a card built with a channel id and a server id has one voice-channel
\* field, the link to https://discord.com/channels/<server_id>/<channel_id>
\* with the ids as decimal numerals; with a channel id and no server id it
\* has one field that shows the channel id; with no channel id it has no
\* voice-channel field; in no case does building the card fail.
C31_VoiceChannelField ==
    colorCall.op = "embed" =>
        LET c == colorCall.voice_channel_id
            g == colorCall.server_id
            fields == colorCall.fields
        IN  /\ (c # NoId /\ g # NoId) =>
                  /\ Len(fields) = 1
                  /\ fields[1].name = "u_1f399 Voice Channel"
                  /\ fields[1].value =
                        <<"[Join Voice Channel](",
                          "https://discord.com/channels/">>
                            \o Numeral(g) \o <<"/">> \o Numeral(c) \o <<")">>
            /\ (c # NoId /\ g = NoId) =>
                  /\ Len(fields) = 1
                  /\ fields[1].name = "u_1f399 Voice Channel ID"
                  /\ fields[1].value = <<"u_0060">> \o Numeral(c) \o <<"u_0060">>
            /\ c = NoId => fields = <<>>

\* a card was built for channel 12 of server 40
C31_Witness ==
    /\ colorCall.op = "embed"
    /\ colorCall.voice_channel_id = 12
    /\ colorCall.server_id = 40
    /\ Len(colorCall.fields) = 1


-----------------------------------------------------------------------------
(* Properties of the profile preamble of the styled-text formatter *)

TAG_b == <<"<", "b", ">">>
TAG_b_end == <<"<", "/", "b", ">">>
TAG_code == <<"<", "c", "o", "d", "e", ">">>
TAG_code_end == <<"<", "/", "c", "o", "d", "e", ">">>

\* the tags _enhance_telegram_message itself writes, in order
PreambleTags(ctx) ==
    IF HasCtx(ctx) THEN <<TAG_b, TAG_b_end, TAG_code, TAG_code_end>> ELSE <<>>

\* C32: the tags of the text handed to the transport are those the
\* formatter itself wrote for the preamble, in order, and no other: no
\* profile field adds a tag or takes one of the preamble's away.
C32_ProfileIsNeverMarkup ==
    (fmtOut.done /\ fmtOut.text # Raised)
        => TagTokens(fmtOut.text, 0) = PreambleTags(fmtIn.ctx)


RECURSIVE OccursInOrder(_, _)
\* the elements of a occur in b, in the order of a
OccursInOrder(a, b) ==
    IF a = <<>> THEN TRUE
    ELSE IF b = <<>> THEN FALSE
    ELSE IF Head(a) = Head(b) THEN OccursInOrder(Tail(a), Tail(b))
    ELSE OccursInOrder(a, Tail(b))

\* C33: the bold pair and the inline-code pair the formatter writes for the
\* preamble are tags of the text handed to the transport, in the order
\* written: the sanitising pass has neither escaped nor removed any of them.
C33_PreambleTagsSurvive ==
    (fmtOut.done /\ fmtOut.text # Raised)
        => OccursInOrder(PreambleTags(fmtIn.ctx), TagTokens(fmtOut.text, 0))


-----------------------------------------------------------------------------
(* Properties of the result of a provider *)

\* the number of chunks of the rendering a path sends: the card, the chunks
\* of the raw message, the caption chunks, the text chunks
RenderingChunks(path) ==
    CASE path = "embed" -> 1
      [] path = "dm" -> Len(format_for_discord(call.message).chunks)
      [] path = "photo" ->
            Len(format_for_telegram(call.message, call.ctx, FALSE).chunks)
      [] path = "text" ->
            Len(format_for_telegram(call.message, call.ctx, TRUE).chunks)

\* every chunk of the rendering of a path has been sent through the
\* transport of channel n, in order, and each send succeeded
PassDelivered(n, path) ==
    LET t == SelectSeq(EventsOf(n), LAMBDA e : e.path = path)
    IN  /\ t # <<>>
        /\ Len(t) = 2 * RenderingChunks(path)
        /\ \A j \in 1..Len(t) : t[j].ok /\ t[j].i = (j + 1) \div 2

SendFailed(n) ==
    \E p \in 1..Len(log) :
        /\ log[p].ch = n
        /\ log[p].ev = "end"
        /\ log[p].path \in SendPaths
        /\ ~log[p].ok

\* C34: a provider returns true only when every chunk of one complete
\* rendering (the card, the raw chunks, the captioned image with its
\* follow-ups, or the text) went through its transport successfully; and
\* when a send failed and no complete rendering went through, it returns
\* false.
C34_TrueMeansDelivered ==
    \A n \in DOMAIN provOutcome :
        LET delivered == \E path \in SendPaths : PassDelivered(n, path)
        IN  /\ provOutcome[n] = "true" => delivered
            /\ (SendFailed(n) /\ ~delivered) => provOutcome[n] = "false"


\* C35: a channel whose captioned image, the first chunk of the
\* notification, was delivered gets no plain send of the text path in the
\* same call: the first chunk's content is not sent again.
C35_NoSecondDelivery ==
    \A p, q \in 1..Len(log) :
        ~ /\ log[p].path = "photo"
          /\ log[p].ev = "end"
          /\ log[p].i = 1
          /\ log[p].ok
          /\ log[q].ch = log[p].ch
          /\ log[q].path = "text"
          /\ log[q].ev = "start"


-----------------------------------------------------------------------------
(* Properties of the mute and deafen rules of the classifier *)

WORD_muted == <<"m", "u", "t", "e", "d">>
WORD_unmuted == <<"u", "n", "m", "u", "t", "e", "d">>
WORD_undeafened == <<"u", "n", "d", "e", "a", "f", "e", "n", "e", "d">>

\* no voice-join, voice-leave or voice-move rule applies to the message
NoChannelRule(message) ==
    WORD_channel \notin WordsOf(Lower(message)) \/ VoiceRulesIn(message) = {}

\* C36: a message with the word "unmuted", to which no join, leave or move
\* rule applies, is classified voice-unmute; a message with the word
\* "undeafened", to which none of those rules applies and which holds
\* neither "muted" nor "unmuted", is classified voice-undeafen.
C36_UnmuteAndUndeafenReachable ==
    (inferOut # None /\ NoChannelRule(inferMsg)) =>
        LET words == WordsOf(Lower(inferMsg))
        IN  /\ WORD_unmuted \in words => inferOut = VOICE_UNMUTE
            /\ (WORD_undeafened \in words /\ WORD_muted \notin words
                                         /\ WORD_unmuted \notin words)
                  => inferOut = VOICE_UNDEAFEN


-----------------------------------------------------------------------------
(* Properties of a get that runs next to a save *)

\* the complete bytes of the saves made on the key: every save of a key
\* writes the thumbnail of its picture
SavedBytes(k) == {ThumbnailOf(k)}

\* C37: a get_cached_thumbnail that ran interleaved with save_thumbnail on
\* its key returns None or the complete bytes of a save on that key, never
\* no bytes and never a part of them
C37_GetSeesWholeSave ==
    \A r \in ReaderIds :
        readers[r].pc = "done"
        => readers[r].result \in {None} \cup SavedBytes(readers[r].key)


-----------------------------------------------------------------------------
(* Properties of on_presence_update *)

\* the events of user_id before the i-th event
EarlierEventsOf(i) ==
    {j \in 1..(i - 1) : presenceTasks[j].user_id = presenceTasks[i].user_id}

\* the i-th event opens a run: it is the first event of its user or the
\* event of that user before it carried another status
OpensRun(i) ==
    \/ EarlierEventsOf(i) = {}
    \/ LET j == CHOOSE e \in EarlierEventsOf(i) :
                    \A o \in EarlierEventsOf(i) : o <= e
       IN  presenceTasks[j].new_status # presenceTasks[i].new_status

\* the events i..j of one user all carry one status
SameRun(i, j) ==
    /\ i < j
    /\ presenceTasks[i].user_id = presenceTasks[j].user_id
    /\ \A e \in i..j :
          presenceTasks[e].user_id = presenceTasks[i].user_id
          => presenceTasks[e].new_status = presenceTasks[i].new_status

\* C38: a handler attempts a notification only for a status that differs
\* from the one recorded last for the user; the cache holds the status of
\* the last event of a user as soon as that event's handler has reached its
\* first await, wherever the other handlers are; and of the events of one
\* run of equal statuses at most one leads to an attempt
C38_PresenceDeduplicated ==
    /\ \A i \in 1..Len(presenceTasks) :
          /\ presenceTasks[i].attempted
              => presenceTasks[i].last_status # presenceTasks[i].new_status
          /\ presenceTasks[i].attempted => OpensRun(i)
          /\ (EarlierEventsOf(i) = {}) => presenceTasks[i].last_status = None
    /\ \A u \in BotUsers :
          LET mine == {i \in 1..Len(presenceTasks) :
                          presenceTasks[i].user_id = u}
          IN  IF mine = {} THEN u \notin DOMAIN presence_cache
              ELSE \E i \in mine :
                      /\ \A o \in mine : o <= i
                      /\ DictGet(presence_cache, u)
                            = presenceTasks[i].new_status
    /\ \A i, j \in 1..Len(presenceTasks) :
          SameRun(i, j)
          => ~(presenceTasks[i].attempted /\ presenceTasks[j].attempted)

\* two events of one user with one status: the handler of the first is
\* still sending its notification when the handler of the second has
\* ended without an attempt
C38_Witness ==
    /\ Len(presenceTasks) >= 2
    /\ SameRun(1, 2)
    /\ presenceTasks[1].pc = "send"
    /\ presenceTasks[1].attempted
    /\ presenceTasks[2].pc = "done"
    /\ ~presenceTasks[2].attempted


-----------------------------------------------------------------------------
(* Properties of watched_channel_users *)

\* every handler has ended
VoiceQuiet ==
    \A i \in 1..Len(voiceTasks) : voiceTasks[i].pc \in {"done", "raised"}

\* C39: once the handlers of the join, leave and move events have ended,
\* watched_channel_users holds no empty set, and a user id is in the set of
\* a channel only if that user is watched and is in that channel now
C39_MembershipIsCurrent ==
    VoiceQuiet
    => \A c \in DOMAIN watched_channel_users :
          /\ watched_channel_users[c] # {}
          /\ \A u \in watched_channel_users[c] :
                IsWatched(u) /\ ChannelOf(u) = c


=============================================================================
